---- MODULE Spec2Model ----
(***************************************************************************)
(* DashCorp Insights: the normalisation and derived-metrics pipeline of    *)
(* src/dashboard.py (carregar_dados, normalizar_colunas,                   *)
(* converter_para_float, obter_codigo_pais and the module-level start-up   *)
(* sequence) and the report of src/data_analyzer.py as state machines.     *)
(*                                                                         *)
(* Python values are tagged records:                                       *)
(*   [t |-> "None"]                      None                              *)
(*   [t |-> "int",   n |-> i]            int                               *)
(*   [t |-> "float", num |-> a, den |-> b]  finite float a/b, b > 0,       *)
(*                                       in lowest terms                   *)
(*   [t |-> "nan"]                       float('nan') / pandas NaN         *)
(*   [t |-> "inf",   sg |-> 1 or -1]     +-infinity                        *)
(*   [t |-> "str",   s |-> <<chars>>]    str, one character per element    *)
(*   [t |-> "cat",   l |-> label]        a pandas Categorical label        *)
(*   [t |-> "date",  y, m, d]            a pandas Timestamp                *)
(*   [t |-> "nat"]                       pandas NaT                        *)
(*                                                                         *)
(* Spec is the start-up script of dashboard.py; SpecCoercao is             *)
(* converter_para_float called directly on one value; SpecRelatorio is     *)
(* AnalisadorDados.gerar_relatorio and direct calls of exportar_dados_csv. *)
(***************************************************************************)
EXTENDS Integers, Sequences, FiniteSets, TLC

VARIABLES
    pc,        \* position in the start-up script of dashboard.py
    dados,     \* the table the data source holds
    df,        \* the module-level DataFrame `df`
    exc,       \* the exception that ended the script, "none" while it runs
    coagida,   \* whether converter_para_float has been applied to df['receita_anual']
    valor,     \* argument of a direct call of converter_para_float
    ret,       \* outcome of the last direct call
    primeira,  \* outcome of the call before the last one
    ldf,       \* the frame the name df is bound to inside normalizar_colunas
    mesmo,     \* whether ldf is the very object the caller passed in
    fontes,    \* what MongoDB, the Excel file and the CSV file can supply
    lidas,     \* the sources carregar_dados has read, in order
    buscas,    \* outcome of pycountry's search_fuzzy for the country of each row
    setores_unicos,  \* df['setor'].unique() of line 174
    limites,   \* receita_max, funcionarios_max, ano_min, ano_max of lines 185-197
    arquivo,   \* the table exportar_dados_csv wrote
    conexao,   \* the MongoClient of the running function: none, open or closed
    colecao,   \* the documents of the MongoDB collection
    execucao,  \* number of the current run of main()
    dados_empresas,  \* the documents main() hands to AnalisadorDados
    controles, \* values of the filter controls of the dashboard
    n_clicks,  \* n_clicks of the two buttons (0 for None)
    saidas     \* what update_graficos last rendered

vars == <<pc, dados, df, ldf, mesmo, exc, coagida, valor, ret, primeira,
          fontes, lidas, buscas, setores_unicos, limites, arquivo,
          conexao, colecao, execucao, dados_empresas, controles, n_clicks, saidas>>

\* the variables of main() and of the dashboard callbacks
vars_main == <<colecao, execucao, dados_empresas>>
vars_painel == <<controles, n_clicks, saidas>>

(* ------------------------------ bounds -------------------------------- *)
MaxStrLen == 3        \* longest exhaustively enumerated input string
MaxRows == 2          \* most rows of an input table
MaxCols == 3          \* most columns of an input table drawn from Rotulos
MaxExecucoes == 3     \* most sequential runs of main()
TamanhoDoLote == 2    \* records of a generated batch
MaxEmpresas == 7      \* most companies of a table shown in the dashboard
MaxCliques == 2       \* most clicks on the two buttons

(* ------------------------------ values -------------------------------- *)
None == [t |-> "None"]
NaN == [t |-> "nan"]
Inf(sg) == [t |-> "inf", sg |-> sg]
PyInt(i) == [t |-> "int", n |-> i]
PyStr(s) == [t |-> "str", s |-> s]

Abs(i) == IF i < 0 THEN -i ELSE i

RECURSIVE Gcd(_, _)
Gcd(a, b) == IF b = 0 THEN a ELSE Gcd(b, a % b)

\* the finite float a/b (b > 0), in lowest terms
Frac(a, b) ==
    LET g == Gcd(Abs(a), b)
    IN  [t |-> "float", num |-> a \div g, den |-> b \div g]

IsNumber(v) == v.t \in {"int", "float", "nan", "inf"}
IsFinite(v) == v.t \in {"int", "float"}
\* pandas isna(): None and NaN are both missing
IsMissing(v) == v.t \in {"None", "nan"}

\* float(x) for an int or a float x
ToFloat(v) == IF v.t = "int" THEN Frac(v.n, 1) ELSE v

(* ------------------- converter_para_float (86-97) --------------------- *)
Digits == {"0", "1", "2", "3", "4", "5", "6", "7", "8", "9"}
DigitVal(c) ==
    CASE c = "0" -> 0 [] c = "1" -> 1 [] c = "2" -> 2 [] c = "3" -> 3
      [] c = "4" -> 4 [] c = "5" -> 5 [] c = "6" -> 6 [] c = "7" -> 7
      [] c = "8" -> 8 [] c = "9" -> 9

RECURSIVE Pow10(_)
Pow10(k) == IF k = 0 THEN 1 ELSE 10 * Pow10(k - 1)

\* the characters of s that are not in the set drop, in order
RECURSIVE Remove(_, _)
Remove(s, drop) ==
    IF s = <<>> THEN <<>>
    ELSE IF Head(s) \in drop THEN Remove(Tail(s), drop)
    ELSE <<Head(s)>> \o Remove(Tail(s), drop)

\* str.replace(a, b) for single characters
Replace(s, a, b) == [i \in 1..Len(s) |-> IF s[i] = a THEN b ELSE s[i]]

\* the cleaning with the '.' left out of the character class
LimparSemPonto(s) == Replace(Remove(s, {"R", "$", " "}), ",", ".")

\* re.sub(r'[R$\s.]', '', valor).replace(',', '.')
Limpar(s) == Replace(Remove(s, {"R", "$", " ", "."}), ",", ".")

\* value of a string of decimal digits
RECURSIVE DigitsVal(_)
DigitsVal(s) ==
    IF s = <<>> THEN 0
    ELSE 10 * DigitsVal(SubSeq(s, 1, Len(s) - 1)) + DigitVal(s[Len(s)])

AllDigits(s) == \A i \in 1..Len(s) : s[i] \in Digits

\* float(s) of Python for a string over the modelled alphabet: an optional
\* sign, decimal digits with at most one '.', at least one digit.  The
\* result is [ok |-> TRUE, v |-> float] or [ok |-> FALSE] (ValueError).
ParseFloat(s) ==
    LET signed == s # <<>> /\ Head(s) \in {"-", "+"}
        body   == IF signed THEN Tail(s) ELSE s
        dots   == {i \in 1..Len(body) : body[i] = "."}
        sg     == IF signed /\ Head(s) = "-" THEN -1 ELSE 1
    IN  IF Cardinality(dots) > 1 THEN [ok |-> FALSE]
        ELSE LET p    == IF dots = {} THEN Len(body) + 1 ELSE CHOOSE i \in dots : TRUE
                 ip   == SubSeq(body, 1, p - 1)
                 fp   == SubSeq(body, p + 1, Len(body))
             IN  IF ~AllDigits(ip) \/ ~AllDigits(fp) \/ Len(ip) + Len(fp) = 0
                 THEN [ok |-> FALSE]
                 ELSE [ok |-> TRUE,
                       v  |-> Frac(sg * (DigitsVal(ip) * Pow10(Len(fp)) + DigitsVal(fp)),
                                   Pow10(Len(fp)))]

Return(v) == [kind |-> "return", v |-> v]
Raise(e) == [kind |-> "raise", exc |-> e]

\* the conversion with isinstance(valor, int) in place of (int, float)
converter_so_int(v) ==
    IF v.t = "int" THEN Return(ToFloat(v))
    ELSE IF v.t = "str"
         THEN LET r == ParseFloat(Limpar(v.s))
              IN  IF r.ok THEN Return(r.v) ELSE Raise("ValueError")
    ELSE Return(NaN)

converter_para_float(v) ==
    IF v.t \in {"int", "float", "nan", "inf"} THEN Return(ToFloat(v))
    ELSE IF v.t = "str"
         THEN LET r == ParseFloat(Limpar(v.s))
              IN  IF r.ok THEN Return(r.v) ELSE Raise("ValueError")
    ELSE Return(NaN)

\* a / b rounded to the nearest integer, ties to even (a >= 0, b > 0)
Arredondar(a, b) ==
    LET q == a \div b
        r == a % b
    IN  IF 2 * r > b \/ (2 * r = b /\ q % 2 = 1) THEN q + 1 ELSE q

(* ------------- exportar_dados_csv currency format (120) --------------- *)
DigitChar(d) ==
    CASE d = 0 -> "0" [] d = 1 -> "1" [] d = 2 -> "2" [] d = 3 -> "3"
      [] d = 4 -> "4" [] d = 5 -> "5" [] d = 6 -> "6" [] d = 7 -> "7"
      [] d = 8 -> "8" [] d = 9 -> "9"

\* decimal digits of a natural number, without leading zeros ("0" for 0)
RECURSIVE IntToDigits(_)
IntToDigits(n) ==
    IF n < 10 THEN <<DigitChar(n)>>
    ELSE IntToDigits(n \div 10) \o <<DigitChar(n % 10)>>

\* the ',' grouping option of Python's format: groups of three from the right
RECURSIVE Agrupar(_)
Agrupar(ds) ==
    IF Len(ds) <= 3 THEN ds
    ELSE Agrupar(SubSeq(ds, 1, Len(ds) - 3)) \o <<",">> \o SubSeq(ds, Len(ds) - 2, Len(ds))

\* f"{x:,.2f}" for the amount x = i + c/100 (i >= 0, 0 <= c <= 99)
Format2f(i, c) ==
    Agrupar(IntToDigits(i)) \o <<".">> \o <<DigitChar(c \div 10), DigitChar(c % 10)>>

\* f"R$ {x:,.2f}".replace(',', 'X').replace('.', ',').replace('X', '.')
receita_anual_formatada(i, c) ==
    Replace(Replace(Replace(<<"R", "$", " ">> \o Format2f(i, c), ",", "X"), ".", ","), "X", ".")

(* ----------------------------- DataFrame ------------------------------ *)
\* A DataFrame: its column labels in order (pandas allows equal labels) and
\* its rows, each a sequence of cells aligned with the labels.
Frame(cols, rows) == [cols |-> cols, rows |-> rows]
EmptyDF == Frame(<<>>, <<>>)

Labels(f) == {f.cols[i] : i \in 1..Len(f.cols)}
\* `c in df.columns`
HasCol(f, c) == c \in Labels(f)
Positions(f, c) == {i \in 1..Len(f.cols) : f.cols[i] = c}
\* df[c] is a Series only when the label c occurs once; with a repeated
\* label it is a DataFrame
IsSeries(f, c) == Cardinality(Positions(f, c)) = 1
ColIdx(f, c) == CHOOSE i \in Positions(f, c) : TRUE
\* the Series df[c], as the sequence of its cells
Col(f, c) == [r \in 1..Len(f.rows) |-> f.rows[r][ColIdx(f, c)]]

\* df[c] = s : replaces the cells of an existing column, appends a new one
SetCol(f, c, s) ==
    IF HasCol(f, c)
    THEN Frame(f.cols,
               [r \in 1..Len(f.rows) |->
                   [i \in 1..Len(f.cols) |-> IF f.cols[i] = c THEN s[r] ELSE f.rows[r][i]]])
    ELSE Frame(Append(f.cols, c), [r \in 1..Len(f.rows) |-> Append(f.rows[r], s[r])])

Ok(f) == [ok |-> TRUE, f |-> f]
Fail(tipo, linha) == [ok |-> FALSE, tipo |-> tipo, linha |-> linha]

(* ----------------- normalizar_colunas: renaming (103-120) ------------- *)
\* the mapping with one synonym mapped to another synonym
mapeamento_encadeado ==
    [k \in {"Nome da Empresa", "Setor", "Receita Anual", "Nº de Funcionários",
            "Nº Funcionários", "País", "Data de Fundação", "Ano de Fundação",
            "Ano Fundação", "ID"} |->
        CASE k = "Nome da Empresa" -> "nome_empresa"
          [] k = "Setor" -> "setor"
          [] k = "Receita Anual" -> "receita_anual"
          [] k = "Nº de Funcionários" -> "numero_funcionarios"
          [] k = "Nº Funcionários" -> "numero_funcionarios"
          [] k = "País" -> "pais"
          [] k = "Data de Fundação" -> "data_fundacao"
          [] k = "Ano de Fundação" -> "ano_fundacao"
          [] k = "Ano Fundação" -> "Ano de Fundação"
          [] k = "ID" -> "id"]

mapeamento ==
    [k \in {"Nome da Empresa", "Setor", "Receita Anual", "Nº de Funcionários",
            "Nº Funcionários", "País", "Data de Fundação", "Ano de Fundação",
            "Ano Fundação", "ID"} |->
        CASE k = "Nome da Empresa" -> "nome_empresa"
          [] k = "Setor" -> "setor"
          [] k = "Receita Anual" -> "receita_anual"
          [] k = "Nº de Funcionários" -> "numero_funcionarios"
          [] k = "Nº Funcionários" -> "numero_funcionarios"
          [] k = "País" -> "pais"
          [] k = "Data de Fundação" -> "data_fundacao"
          [] k = "Ano de Fundação" -> "ano_fundacao"
          [] k = "Ano Fundação" -> "ano_fundacao"
          [] k = "ID" -> "id"]

\* {col: mapeamento[col] for col in df.columns if col in mapeamento}
colunas_para_renomear(f) ==
    [c \in Labels(f) \cap DOMAIN mapeamento |-> mapeamento[c]]

\* a renaming that keeps only the columns it renames
RenameSoMapeadas(f, m) ==
    LET keep == {i \in 1..Len(f.cols) : f.cols[i] \in DOMAIN m}
        RECURSIVE Pick(_, _)
        Pick(row, k) ==
            IF k > Len(f.cols) THEN <<>>
            ELSE (IF k \in keep THEN <<row[k]>> ELSE <<>>) \o Pick(row, k + 1)
    IN  Frame(Pick([i \in 1..Len(f.cols) |-> m[f.cols[i]]], 1),
              [r \in 1..Len(f.rows) |-> Pick(f.rows[r], 1)])

\* df.rename(columns=m): a new frame, labels in DOMAIN m replaced, cells kept
Rename(f, m) ==
    Frame([i \in 1..Len(f.cols) |->
              IF f.cols[i] \in DOMAIN m THEN m[f.cols[i]] ELSE f.cols[i]],
          f.rows)

\* lines 118-120; `novo` tells whether df was rebound to a new frame
Renomear(f) ==
    LET m == colunas_para_renomear(f)
    IN  IF DOMAIN m # {} THEN [f |-> Rename(f, m), novo |-> TRUE]
        ELSE [f |-> f, novo |-> FALSE]

(* -------------- normalizar_colunas: founding year (122-128) ----------- *)
Date(y, m, d) == [t |-> "date", y |-> y, m |-> m, d |-> d]
NaT == [t |-> "nat"]

\* pd.to_datetime of one cell; the modelled date strings are the
\* '%Y-%m-%d' strings data_generator.py writes, anything else does not parse
ParseDate(v) ==
    IF IsMissing(v) THEN [ok |-> TRUE, v |-> NaT]
    ELSE IF v.t = "date" THEN [ok |-> TRUE, v |-> v]
    ELSE IF /\ v.t = "str"
            /\ Len(v.s) = 10
            /\ v.s[5] = "-" /\ v.s[8] = "-"
            /\ AllDigits(SubSeq(v.s, 1, 4) \o SubSeq(v.s, 6, 7) \o SubSeq(v.s, 9, 10))
            /\ DigitsVal(SubSeq(v.s, 6, 7)) \in 1..12
            /\ DigitsVal(SubSeq(v.s, 9, 10)) \in 1..31
         THEN [ok |-> TRUE,
               v  |-> Date(DigitsVal(SubSeq(v.s, 1, 4)), DigitsVal(SubSeq(v.s, 6, 7)),
                           DigitsVal(SubSeq(v.s, 9, 10)))]
    ELSE [ok |-> FALSE]

\* Series.dt.year
Year(v) == IF v.t = "date" THEN PyInt(v.y) ELSE NaN

\* the conversion with errors='coerce': a cell that is no date becomes NaT
AnoFundacaoCoerce(f) ==
    IF ~HasCol(f, "ano_fundacao") /\ IsSeries(f, "data_fundacao")
    THEN LET datas == [r \in 1..Len(f.rows) |->
                         IF ParseDate(Col(f, "data_fundacao")[r]).ok
                         THEN ParseDate(Col(f, "data_fundacao")[r]).v ELSE NaT]
             g     == SetCol(f, "data_fundacao", datas)
         IN  SetCol(g, "ano_fundacao", [r \in 1..Len(f.rows) |-> Year(datas[r])])
    ELSE f

\* lines 123-128: any failure inside the try leaves df as it was
AnoFundacaoPasso(f) ==
    IF ~HasCol(f, "ano_fundacao") /\ HasCol(f, "data_fundacao")
    THEN IF /\ IsSeries(f, "data_fundacao")
            /\ \A r \in 1..Len(f.rows) : ParseDate(Col(f, "data_fundacao")[r]).ok
         THEN LET datas == [r \in 1..Len(f.rows) |-> ParseDate(Col(f, "data_fundacao")[r]).v]
                  g     == SetCol(f, "data_fundacao", datas)
              IN  SetCol(g, "ano_fundacao", [r \in 1..Len(f.rows) |-> Year(datas[r])])
         ELSE f
    ELSE f

(* --------- normalizar_colunas: revenue per employee (130-133) --------- *)
Sign(i) == IF i < 0 THEN -1 ELSE IF i > 0 THEN 1 ELSE 0
Num(v) == IF v.t = "int" THEN v.n ELSE v.num
Den(v) == IF v.t = "int" THEN 1 ELSE v.den

\* a / b of two float64 cells (IEEE 754: x/0 is +-inf, 0/0 is NaN)
Dividir(a, b) ==
    IF IsMissing(a) \/ IsMissing(b) THEN NaN
    ELSE IF a.t = "inf" /\ b.t = "inf" THEN NaN
    ELSE IF b.t = "inf" THEN Frac(0, 1)
    ELSE IF Num(b) = 0
         THEN IF a.t = "inf" THEN a
              ELSE IF Num(a) = 0 THEN NaN ELSE Inf(Sign(Num(a)))
    ELSE IF a.t = "inf" THEN Inf(a.sg * Sign(Num(b)))
    ELSE Frac(Sign(Num(b)) * Num(a) * Den(b), Den(a) * Abs(Num(b)))

HasStr(s) == \E r \in 1..Len(s) : s[r].t = "str"

\* Series / Series.  Numeric columns divide cell by cell.  A column holding
\* a str is of dtype object: the division is Python's, cell by cell, over
\* the rows where both cells are present (pandas' masked fallback), where
\* a str operand is a TypeError and a zero divisor a ZeroDivisionError.
DividirSeries(a, b, linha) ==
    IF HasStr(a) \/ HasStr(b)
    THEN IF \E r \in 1..Len(a) :
                /\ ~IsMissing(a[r]) /\ ~IsMissing(b[r])
                /\ (a[r].t = "str" \/ b[r].t = "str")
         THEN Fail("TypeError", linha)
         ELSE IF \E r \in 1..Len(a) :
                    /\ ~IsMissing(a[r]) /\ ~IsMissing(b[r])
                    /\ b[r].t \in {"int", "float"} /\ Num(b[r]) = 0
              THEN Fail("ZeroDivisionError", linha)
              ELSE [ok |-> TRUE,
                    s  |-> [r \in 1..Len(a) |->
                              IF a[r].t = "str" \/ b[r].t = "str" THEN NaN
                              ELSE Dividir(a[r], b[r])]]
    ELSE [ok |-> TRUE, s |-> [r \in 1..Len(a) |-> Dividir(a[r], b[r])]]

\* lines 131-133.  With a repeated label an operand is a DataFrame, the
\* quotient is a DataFrame, and assigning it to one column is a ValueError.
ReceitaPorFuncionarioPasso(f) ==
    IF HasCol(f, "receita_anual") /\ HasCol(f, "numero_funcionarios")
    THEN IF ~IsSeries(f, "receita_anual") \/ ~IsSeries(f, "numero_funcionarios")
         THEN Fail("ValueError", 133)
         ELSE LET q == DividirSeries(Col(f, "receita_anual"),
                                     Col(f, "numero_funcionarios"), 133)
              IN  IF q.ok THEN Ok(SetCol(f, "receita_por_funcionario", q.s)) ELSE q
    ELSE Ok(f)

(* ------------- normalizar_colunas: size tier (135-139) ---------------- *)
\* bins = [0, 10e6, 100e6, 500e6, 1e9, float('inf')]; the last edge is +inf
bins == <<0, 10000000, 100000000, 500000000, 1000000000>>
labels == <<"Micro", "Pequena", "Média", "Grande", "Corporação">>
Cat(l) == [t |-> "cat", l |-> l]

\* v > b for a finite number v and an integer b
Maior(v, b) ==
    LET q == Num(v) \div Den(v)
    IN  q > b \/ (q = b /\ Num(v) % Den(v) # 0)

\* the binning with -inf as the lowest edge
CutSemLimiteInferior(v) ==
    IF IsMissing(v) THEN NaN
    ELSE IF v.t = "inf" THEN (IF v.sg = 1 THEN Cat(labels[Len(labels)]) ELSE Cat(labels[1]))
    ELSE IF ~Maior(v, bins[2]) THEN Cat(labels[1])
    ELSE Cat(labels[CHOOSE i \in 2..Len(bins) :
                       /\ Maior(v, bins[i])
                       /\ (i = Len(bins) \/ ~Maior(v, bins[i + 1]))])

\* pd.cut of one cell with the default right=True, include_lowest=False:
\* the intervals are (bins[i], bins[i+1]], a value in none of them is NaN
Cut(v) ==
    IF IsMissing(v) THEN NaN
    ELSE IF v.t = "inf" THEN (IF v.sg = 1 THEN Cat(labels[Len(labels)]) ELSE NaN)
    ELSE IF \E i \in 1..Len(bins) :
               /\ Maior(v, bins[i])
               /\ (i = Len(bins) \/ ~Maior(v, bins[i + 1]))
         THEN Cat(labels[CHOOSE i \in 1..Len(bins) :
                            /\ Maior(v, bins[i])
                            /\ (i = Len(bins) \/ ~Maior(v, bins[i + 1]))])
    ELSE NaN

\* the size tier assigned whether or not there is a revenue column
PorteSemGuarda(f) ==
    IF HasCol(f, "receita_anual")
    THEN IF ~IsSeries(f, "receita_anual") THEN Fail("ValueError", 139)
         ELSE IF HasStr(Col(f, "receita_anual")) THEN Fail("TypeError", 139)
         ELSE Ok(SetCol(f, "porte",
                        [r \in 1..Len(f.rows) |-> Cut(Col(f, "receita_anual")[r])]))
    ELSE Ok(SetCol(f, "porte", [r \in 1..Len(f.rows) |-> NaN]))

\* lines 136-139.  pd.cut needs a one-dimensional input (a repeated label
\* gives a DataFrame: ValueError) and orders the cells against the bins (a
\* str cell: TypeError).
PortePasso(f) ==
    IF HasCol(f, "receita_anual")
    THEN IF ~IsSeries(f, "receita_anual") THEN Fail("ValueError", 139)
         ELSE IF HasStr(Col(f, "receita_anual")) THEN Fail("TypeError", 139)
         ELSE Ok(SetCol(f, "porte",
                        [r \in 1..Len(f.rows) |-> Cut(Col(f, "receita_anual")[r])]))
    ELSE Ok(f)

(* ------------- normalizar_colunas: company age (141-146) -------------- *)
\* datetime.now().year
ano_atual == 2025

\* ano_atual - v for one cell
Idade(v) ==
    IF IsMissing(v) THEN NaN
    ELSE IF v.t = "int" THEN PyInt(ano_atual - v.n)
    ELSE IF v.t = "float" THEN Frac(ano_atual * v.den - v.num, v.den)
    ELSE IF v.t = "inf" THEN Inf(-v.sg)
    ELSE NaN

\* lines 142-144.  A repeated label makes the difference a DataFrame, which
\* cannot be assigned to one column (ValueError); int - str is a TypeError.
IdadeEmpresaPasso(f) ==
    IF HasCol(f, "ano_fundacao")
    THEN IF ~IsSeries(f, "ano_fundacao") THEN Fail("ValueError", 144)
         ELSE IF \E r \in 1..Len(f.rows) : Col(f, "ano_fundacao")[r].t \in {"str", "date"}
              THEN Fail("TypeError", 144)
         ELSE Ok(SetCol(f, "idade_empresa",
                        [r \in 1..Len(f.rows) |-> Idade(Col(f, "ano_fundacao")[r])]))
    ELSE Ok(f)

(* ---------------- module level: revenue coercion (165-167) ------------ *)
\* df['receita_anual'] = df['receita_anual'].apply(converter_para_float)
\* (no frame with a repeated receita_anual label gets here: line 139 raises)
CoagirReceitaPasso(f) ==
    IF HasCol(f, "receita_anual")
    THEN IF ~IsSeries(f, "receita_anual") THEN Fail("ValueError", 167)
         ELSE LET s == Col(f, "receita_anual")
              IN  IF \E r \in 1..Len(s) : converter_para_float(s[r]).kind = "raise"
                  THEN Fail("ValueError", 167)
                  ELSE Ok(SetCol(f, "receita_anual",
                                 [r \in 1..Len(s) |-> converter_para_float(s[r]).v]))
    ELSE Ok(f)

(* -------------- obter_codigo_pais (149-156, 170-171) ------------------ *)
\* what pycountry.countries.search_fuzzy does with a name: it returns a list
\* of countries (here their alpha_3 codes) or raises
ResultadosDaBusca ==
    {[kind |-> "lista", alpha_3 |-> <<>>],
     [kind |-> "lista", alpha_3 |-> <<PyStr(<<"B", "R", "A">>)>>],
     [kind |-> "lista", alpha_3 |-> <<PyStr(<<"U", "S", "A">>), PyStr(<<"U", "M", "I">>)>>],
     [kind |-> "raise", exc |-> "LookupError"],
     [kind |-> "raise", exc |-> "AttributeError"]}

\* the lookup of a name that is no str raises
BuscaPossivel(nome, busca) == nome.t # "str" => busca.kind = "raise"

\* the function with `except LookupError:` in place of the bare except
obter_codigo_pais_so_lookup(busca) ==
    IF busca.kind = "raise"
    THEN IF busca.exc = "LookupError" THEN Return(None) ELSE Raise(busca.exc)
    ELSE IF Len(busca.alpha_3) > 0 THEN Return(busca.alpha_3[1])
    ELSE Return(None)

\* lines 149-156, given the outcome of search_fuzzy(nome_pais)
obter_codigo_pais(busca) ==
    IF busca.kind = "raise" THEN Return(None)
    ELSE IF Len(busca.alpha_3) > 0 THEN Return(busca.alpha_3[1])
    ELSE Return(None)

\* lines 170-171: df['codigo_pais'] = df['pais'].apply(obter_codigo_pais),
\* bs the lookup outcomes row by row.  With a repeated pais label the apply
\* runs per column and its result, indexed by the repeated label, cannot be
\* aligned with the rows (ValueError).
CodigoPaisPasso(f, bs) ==
    IF HasCol(f, "pais")
    THEN IF ~IsSeries(f, "pais") THEN Fail("ValueError", 171)
         ELSE IF \E r \in 1..Len(f.rows) : obter_codigo_pais(bs[r]).kind = "raise"
              THEN Fail(obter_codigo_pais(
                            bs[CHOOSE r \in 1..Len(f.rows) :
                                  obter_codigo_pais(bs[r]).kind = "raise"]).exc, 171)
              ELSE Ok(SetCol(f, "codigo_pais",
                             [r \in 1..Len(f.rows) |-> obter_codigo_pais(bs[r]).v]))
    ELSE Ok(f)

(* ------- module level: palette, slider bounds, marks, layout ---------- *)
RECURSIVE Unicos(_)
\* Series.unique(): the distinct cells in order of first appearance
Unicos(s) ==
    IF s = <<>> THEN <<>>
    ELSE LET u == Unicos(SubSeq(s, 1, Len(s) - 1))
         IN  IF \E i \in 1..Len(u) : u[i] = s[Len(s)] THEN u ELSE Append(u, s[Len(s)])

\* lines 174-176: df['setor'] is a KeyError without the column; with a
\* repeated label it is a DataFrame, which has no unique()
PaletaPasso(f) ==
    IF ~HasCol(f, "setor") THEN Fail("KeyError", 174)
    ELSE IF ~IsSeries(f, "setor") THEN Fail("AttributeError", 174)
    ELSE [ok |-> TRUE, setores_unicos |-> Unicos(Col(f, "setor"))]

\* a <= b for two finite numbers
MenorOuIgual(a, b) == Num(a) * Den(b) <= Num(b) * Den(a)

\* Series.max() / Series.min(): over the cells that are not missing, NaN
\* when there is none; a column with a missing cell is a float column
Extremo(s, maior) ==
    LET presentes == {r \in 1..Len(s) : ~IsMissing(s[r])}
    IN  IF presentes = {} THEN NaN
        ELSE LET r == CHOOSE r \in presentes :
                         \A q \in presentes :
                             IF maior THEN MenorOuIgual(s[q], s[r])
                             ELSE MenorOuIgual(s[r], s[q])
             IN  IF \E q \in 1..Len(s) : IsMissing(s[q]) THEN ToFloat(s[r]) ELSE s[r]

\* round(x / 1e6) of a finite x: to the nearest integer, ties to even
ArredondarMilhoes(x) ==
    IF Num(x) >= 0 THEN Arredondar(Num(x), Den(x) * 1000000)
    ELSE 0 - Arredondar(0 - Num(x), Den(x) * 1000000)

\* lines 185-197: the defaults stand for the columns that are absent;
\* round() of NaN is a ValueError, of an infinity an OverflowError
LimitesPasso(f) ==
    LET maxima == Extremo(Col(f, "receita_anual"), TRUE)
    IN  IF HasCol(f, "receita_anual") /\ maxima.t = "nan" THEN Fail("ValueError", 187)
        ELSE IF HasCol(f, "receita_anual") /\ maxima.t = "inf"
             THEN Fail("OverflowError", 187)
        ELSE [ok |-> TRUE,
              limites |->
                [receita_max |->
                    IF HasCol(f, "receita_anual")
                    THEN PyInt(ArredondarMilhoes(maxima)) ELSE PyInt(1000),
                 funcionarios_max |->
                    IF HasCol(f, "numero_funcionarios")
                    THEN Extremo(Col(f, "numero_funcionarios"), TRUE) ELSE PyInt(500),
                 ano_min |->
                    IF HasCol(f, "ano_fundacao")
                    THEN Extremo(Col(f, "ano_fundacao"), FALSE) ELSE PyInt(1970),
                 ano_max |->
                    IF HasCol(f, "ano_fundacao")
                    THEN Extremo(Col(f, "ano_fundacao"), TRUE) ELSE PyInt(2025)]]

\* lines 200-202: range() takes integers only, a float bound is a TypeError
MarcasPasso(l) ==
    IF l.funcionarios_max.t # "int" THEN Fail("TypeError", 201)
    ELSE IF l.ano_min.t # "int" \/ l.ano_max.t # "int" THEN Fail("TypeError", 202)
    ELSE [ok |-> TRUE]

\* lines 252-357: the layout reads receita_anual (270, 290),
\* numero_funcionarios (280), setor (311) and porte (353-354)
LayoutPasso(f) ==
    IF ~HasCol(f, "receita_anual") THEN Fail("KeyError", 270)
    ELSE IF ~HasCol(f, "numero_funcionarios") THEN Fail("KeyError", 280)
    ELSE IF ~HasCol(f, "setor") THEN Fail("KeyError", 311)
    ELSE IF ~HasCol(f, "porte") THEN Fail("KeyError", 353)
    ELSE [ok |-> TRUE]

(* --------------------------- input tables ----------------------------- *)
\* canonical name of a label
Canonico(c) == IF c \in DOMAIN mapeamento THEN mapeamento[c] ELSE c

Receitas == {PyInt(0), PyInt(9999999), PyInt(10000000), PyInt(100000000),
             PyInt(500000000), PyInt(999999999), PyInt(1000000000), PyInt(-1), NaN,
             Frac(123456, 100), PyStr(receita_anual_formatada(1234, 56))}
Funcionarios == {PyInt(0), PyInt(10), NaN}
Texto == PyStr(<<"x">>)
\* founding dates as data_generator.py writes them ('%Y-%m-%d'), a cell
\* that is no date, and a missing cell
Datas == {PyStr(<<"2", "0", "0", "1", "-", "0", "5", "-", "1", "7">>),
          PyStr(<<"1", "9", "9", "9", "-", "1", "2", "-", "3", "1">>),
          PyStr(<<"a", "b", "c">>), NaN}
Anos == {PyInt(1990), NaN}

\* the cells a column of a given label may hold
Celulas(c) ==
    CASE Canonico(c) = "receita_anual" -> Receitas
      [] Canonico(c) = "numero_funcionarios" -> Funcionarios
      [] Canonico(c) = "data_fundacao" -> Datas
      [] Canonico(c) = "ano_fundacao" -> Anos
      [] OTHER -> {Texto}

RECURSIVE Linhas(_)
\* the rows a table with the labels cols may hold
Linhas(cols) ==
    IF cols = <<>> THEN {<<>>}
    ELSE {<<c>> \o r : c \in Celulas(Head(cols)), r \in Linhas(Tail(cols))}

\* tables with the labels of the exported file, of the MongoDB documents
\* and of a file without an employee column, and tables with a founding
\* date (exported labels, MongoDB labels, and next to a founding year),
\* with up to MaxRows rows
Esquemas ==
    {<<"Nome da Empresa", "Receita Anual", "Nº de Funcionários">>,
     <<"nome_empresa", "receita_anual", "numero_funcionarios">>,
     <<"Nome da Empresa", "Receita Anual">>,
     <<"Nome da Empresa", "Data de Fundação">>,
     <<"nome_empresa", "data_fundacao">>,
     <<"data_fundacao", "ano_fundacao">>}

\* t is a table with the labels of one of Esquemas and at most MaxRows rows
TabelaDeLinhas(t) ==
    \E cols \in Esquemas, n \in 0..MaxRows :
        \E rows \in [1..n -> Linhas(cols)] : t = Frame(cols, rows)

\* tables with any at most MaxCols distinct labels, empty or with one row
Rotulos ==
    <<"Nome da Empresa", "Setor", "Receita Anual", "Nº de Funcionários",
      "Nº Funcionários", "País", "Data de Fundação", "Ano de Fundação",
      "Ano Fundação", "ID", "receita_anual", "numero_funcionarios",
      "data_fundacao", "ano_fundacao", "Website">>

RECURSIVE Escolher(_, _)
\* the labels of Rotulos at the positions in I, from position k on, in order
Escolher(I, k) ==
    IF k > Len(Rotulos) THEN <<>>
    ELSE (IF k \in I THEN <<Rotulos[k]>> ELSE <<>>) \o Escolher(I, k + 1)

CelulaPadrao(c) ==
    CASE Canonico(c) = "receita_anual" -> PyInt(10000000)
      [] Canonico(c) = "numero_funcionarios" -> PyInt(10)
      [] Canonico(c) = "ano_fundacao" -> PyInt(2001)
      [] Canonico(c) = "data_fundacao" ->
            PyStr(<<"2", "0", "0", "1", "-", "0", "5", "-", "1", "7">>)
      [] OTHER -> Texto

TabelaPadrao(cols, n) ==
    Frame(cols, [r \in 1..n |-> [i \in 1..Len(cols) |-> CelulaPadrao(cols[i])]])

\* t is a table with at most MaxCols of the labels of Rotulos, empty or
\* with one row
TabelaDeRotulos(t) ==
    \E I \in SUBSET (1..Len(Rotulos)), n \in 0..1 :
        /\ Cardinality(I) <= MaxCols
        /\ t = TabelaPadrao(Escolher(I, 1), n)

(* ------------------------ carregar_dados (49-84) ---------------------- *)
\* MongoDB returns documents, returns none, or fails (connection, query or
\* close); a data file is readable, absent, or present but unreadable
Fontes ==
    [mongo : {"docs", "vazio", "falha"},
     excel : {"ok", "ausente", "ilegivel"},
     csv   : {"ok", "ausente", "ilegivel"}]
SoExcel == [mongo |-> "vazio", excel |-> "ok", csv |-> "ausente"]

\* the complete records of MongoDB and of the exported file
EsquemasDeFontes ==
    {<<"_id", "nome_empresa", "setor", "receita_anual", "numero_funcionarios",
       "pais", "data_fundacao">>,
     <<"Nome da Empresa", "Setor", "Receita Anual", "Nº de Funcionários",
       "País", "Data de Fundação", "Ano de Fundação">>}

\* t is the table the sources fo hold: a list of MongoDB documents that
\* passes `if dados:` has at least one document
TabelaDeFontes(t, fo) ==
    \E cols \in EsquemasDeFontes, n \in 0..1 :
        /\ fo.mongo = "docs" => n >= 1
        /\ t = TabelaPadrao(cols, n)

Lida(f, l) == [ok |-> TRUE, f |-> f, lidas |-> l]
Falha(tipo, linha, l) == [ok |-> FALSE, tipo |-> tipo, linha |-> linha, lidas |-> l]

\* lines 57-81, the body of the try
Tentar(fo, t) ==
    IF fo.mongo = "falha" THEN Falha("PyMongoError", 59, <<"mongo">>)
    ELSE IF fo.mongo = "docs" THEN Lida(t, <<"mongo">>)
    ELSE IF fo.excel # "ausente"
         THEN IF fo.excel = "ok" THEN Lida(t, <<"mongo", "excel">>)
              ELSE Falha("ValueError", 70, <<"mongo", "excel">>)
    ELSE IF fo.csv # "ausente"
         THEN IF fo.csv = "ok" THEN Lida(t, <<"mongo", "csv">>)
              ELSE Falha("ParserError", 77, <<"mongo", "csv">>)
    ELSE Falha("FileNotFoundError", 81, <<"mongo">>)

\* lines 58-60: the client is closed after buscar_todos returned; when
\* MongoDB fails, the constructor raised (no client) or a later call did
\* (the client stays open)
ConexaoDepois(fo) ==
    IF fo.mongo = "falha" THEN {"nenhuma", "aberta"} ELSE {"fechada"}

\* the try without its except clause
carregar_dados_sem_except(fo, t) == Tentar(fo, t)

\* lines 56-84: whatever the try raises, the result is pd.DataFrame()
carregar_dados(fo, t) ==
    IF Tentar(fo, t).ok THEN Tentar(fo, t)
    ELSE Lida(EmptyDF, Tentar(fo, t).lidas)

(* ------------------- the start-up script (158-202) -------------------- *)
SemErro == [tipo |-> "none", linha |-> 0]
NoCall == [kind |-> "none"]
SemLimites == [receita_max |-> None, funcionarios_max |-> None,
               ano_min |-> None, ano_max |-> None]
SemControles == [setores |-> <<>>, receita |-> <<>>, funcionarios |-> <<>>,
                 ano |-> <<>>, porte |-> <<>>, top_n |-> 0]
SemSaidas == [selecao |-> <<>>, top |-> <<>>, ok |-> FALSE]
\* main() is not running; the dashboard has not been rendered
SemMain ==
    /\ conexao = "nenhuma"
    /\ colecao = <<>>
    /\ execucao = 0
    /\ dados_empresas = <<>>
SemPainel ==
    /\ controles = SemControles
    /\ n_clicks = [aplicar |-> 0, limpar |-> 0]
    /\ saidas = SemSaidas

Init ==
    /\ pc = "inicio"
    /\ \/ fontes = SoExcel /\ (TabelaDeLinhas(dados) \/ TabelaDeRotulos(dados))
       \/ fontes \in Fontes /\ TabelaDeFontes(dados, fontes)
    /\ df = EmptyDF
    /\ ldf = EmptyDF
    /\ mesmo = FALSE
    /\ exc = SemErro
    /\ coagida = FALSE
    /\ valor = None
    /\ ret = NoCall
    /\ primeira = NoCall
    /\ lidas = <<>>
    /\ buscas = <<>>
    /\ setores_unicos = <<>>
    /\ limites = SemLimites
    /\ arquivo = EmptyDF
    /\ SemMain /\ SemPainel

\* line 159: df = carregar_dados()
CarregarDados ==
    /\ pc = "inicio"
    /\ LET r == carregar_dados(fontes, dados)
       IN  /\ lidas' = r.lidas
           /\ IF r.ok
              THEN /\ df' = r.f
                   /\ pc' = "carregado"
                   /\ exc' = exc
              ELSE /\ pc' = "erro"
                   /\ exc' = [tipo |-> r.tipo, linha |-> r.linha]
                   /\ df' = df
    /\ conexao' \in ConexaoDepois(fontes)
    /\ UNCHANGED <<dados, ldf, mesmo, coagida, valor, ret, primeira, fontes, buscas,
                   setores_unicos, limites, arquivo, vars_main, vars_painel>>

\* normalizar_colunas(df), lines 103-120: the parameter is the caller's
\* frame until df.rename rebinds it to a new one
RenomearColunas ==
    /\ pc = "carregado"
    /\ ldf' = Renomear(df).f
    /\ mesmo' = ~Renomear(df).novo
    /\ pc' = "renomeado"
    /\ UNCHANGED <<dados, df, exc, coagida, valor, ret, primeira, fontes, lidas, buscas,
                 setores_unicos, limites, arquivo, vars_main, vars_painel, conexao>>

\* a step of normalizar_colunas that assigns columns of its df in place:
\* the caller's frame changes with it while both names are one object
Passo(r, depois) ==
    IF r.ok
    THEN /\ ldf' = r.f
         /\ df' = IF mesmo THEN r.f ELSE df
         /\ pc' = depois
         /\ exc' = exc
    ELSE /\ pc' = "erro"
         /\ exc' = [tipo |-> r.tipo, linha |-> r.linha]
         /\ UNCHANGED <<ldf, df>>

\* lines 122-128
AnoFundacao ==
    /\ pc = "renomeado"
    /\ Passo(Ok(AnoFundacaoPasso(ldf)), "ano")
    /\ UNCHANGED <<dados, mesmo, coagida, valor, ret, primeira, fontes, lidas, buscas,
                 setores_unicos, limites, arquivo, vars_main, vars_painel, conexao>>

\* lines 130-133
ReceitaPorFuncionario ==
    /\ pc = "ano"
    /\ Passo(ReceitaPorFuncionarioPasso(ldf), "receita_por_funcionario")
    /\ UNCHANGED <<dados, mesmo, coagida, valor, ret, primeira, fontes, lidas, buscas,
                 setores_unicos, limites, arquivo, vars_main, vars_painel, conexao>>

\* lines 135-139
Porte ==
    /\ pc = "receita_por_funcionario"
    /\ Passo(PortePasso(ldf), "porte")
    /\ UNCHANGED <<dados, mesmo, coagida, valor, ret, primeira, fontes, lidas, buscas,
                 setores_unicos, limites, arquivo, vars_main, vars_painel, conexao>>

\* lines 141-146 and the assignment of line 162: df = normalizar_colunas(df)
IdadeEmpresa ==
    /\ pc = "porte"
    /\ LET r == IdadeEmpresaPasso(ldf)
       IN  IF r.ok
           THEN /\ df' = r.f
                /\ ldf' = EmptyDF
                /\ mesmo' = FALSE
                /\ pc' = "normalizado"
                /\ exc' = exc
           ELSE /\ pc' = "erro"
                /\ exc' = [tipo |-> r.tipo, linha |-> r.linha]
                /\ UNCHANGED <<ldf, df, mesmo>>
    /\ UNCHANGED <<dados, coagida, valor, ret, primeira, fontes, lidas, buscas,
                 setores_unicos, limites, arquivo, vars_main, vars_painel, conexao>>

\* lines 165-167
CoagirReceita ==
    /\ pc = "normalizado"
    /\ LET r == CoagirReceitaPasso(df)
       IN  IF r.ok
           THEN /\ df' = r.f
                /\ coagida' = HasCol(df, "receita_anual")
                /\ pc' = "coagido"
                /\ exc' = exc
           ELSE /\ pc' = "erro"
                /\ exc' = [tipo |-> r.tipo, linha |-> r.linha]
                /\ UNCHANGED <<df, coagida>>
    /\ UNCHANGED <<dados, ldf, mesmo, valor, ret, primeira, fontes, lidas, buscas,
                 setores_unicos, limites, arquivo, vars_main, vars_painel, conexao>>

\* lines 169-171
CodigoPais ==
    /\ pc = "coagido"
    /\ \E bs \in [1..(IF IsSeries(df, "pais") THEN Len(df.rows) ELSE 0) -> ResultadosDaBusca] :
          /\ \A r \in DOMAIN bs : BuscaPossivel(Col(df, "pais")[r], bs[r])
          /\ buscas' = bs
          /\ LET r == CodigoPaisPasso(df, bs)
             IN  IF r.ok
                 THEN /\ df' = r.f
                      /\ pc' = "codigo"
                      /\ exc' = exc
                 ELSE /\ pc' = "erro"
                      /\ exc' = [tipo |-> r.tipo, linha |-> r.linha]
                      /\ df' = df
    /\ UNCHANGED <<dados, ldf, mesmo, coagida, valor, ret, primeira, fontes, lidas,
                   setores_unicos, limites, arquivo, vars_main, vars_painel, conexao>>

\* the script stops at the line that raised
Levantar(r) ==
    /\ pc' = "erro"
    /\ exc' = [tipo |-> r.tipo, linha |-> r.linha]

\* lines 173-176
Paleta ==
    /\ pc = "codigo"
    /\ LET r == PaletaPasso(df)
       IN  IF r.ok
           THEN /\ setores_unicos' = r.setores_unicos
                /\ pc' = "paleta"
                /\ exc' = exc
           ELSE Levantar(r) /\ setores_unicos' = setores_unicos
    /\ UNCHANGED <<dados, df, ldf, mesmo, coagida, valor, ret, primeira, fontes, lidas,
                   buscas, limites, arquivo, vars_main, vars_painel, conexao>>

\* lines 178-197
Limites ==
    /\ pc = "paleta"
    /\ LET r == LimitesPasso(df)
       IN  IF r.ok
           THEN /\ limites' = r.limites
                /\ pc' = "limites"
                /\ exc' = exc
           ELSE Levantar(r) /\ limites' = limites
    /\ UNCHANGED <<dados, df, ldf, mesmo, coagida, valor, ret, primeira, fontes, lidas,
                   buscas, setores_unicos, arquivo, vars_main, vars_painel, conexao>>

\* lines 199-202
Marcas ==
    /\ pc = "limites"
    /\ LET r == MarcasPasso(limites)
       IN  IF r.ok THEN pc' = "marcas" /\ exc' = exc ELSE Levantar(r)
    /\ UNCHANGED <<dados, df, ldf, mesmo, coagida, valor, ret, primeira, fontes, lidas,
                   buscas, setores_unicos, limites, arquivo, vars_main, vars_painel, conexao>>

\* lines 252-357: app.layout
Layout ==
    /\ pc = "marcas"
    /\ LET r == LayoutPasso(df)
       IN  IF r.ok THEN pc' = "layout" /\ exc' = exc ELSE Levantar(r)
    /\ UNCHANGED <<dados, df, ldf, mesmo, coagida, valor, ret, primeira, fontes, lidas,
                   buscas, setores_unicos, limites, arquivo, vars_main, vars_painel, conexao>>

Next ==
    \/ CarregarDados
    \/ RenomearColunas
    \/ AnoFundacao
    \/ ReceitaPorFuncionario
    \/ Porte
    \/ IdadeEmpresa
    \/ CoagirReceita
    \/ CodigoPais
    \/ Paleta
    \/ Limites
    \/ Marcas
    \/ Layout

Spec == Init /\ [][Next]_vars


(* --------------- inputs of direct converter_para_float calls ---------- *)
Alfabeto == {"R", "$", " ", ".", ",", "-", "1", "5", "a"}

RECURSIVE StringsUpTo(_)
StringsUpTo(k) ==
    IF k = 0 THEN {<<>>}
    ELSE LET shorter == StringsUpTo(k - 1)
         IN  shorter \cup {Append(s, c) : s \in {x \in shorter : Len(x) = k - 1}, c \in Alfabeto}

ParteInteira == {0, 7, 999, 1000, 1234, 1234567}
Centavos == {0, 5, 56, 99}
Formatadas == {receita_anual_formatada(i, c) : i \in ParteInteira, c \in Centavos}

Numeros == {PyInt(0), PyInt(5), PyInt(-3), PyInt(1000000000),
            Frac(123456, 100), Frac(-1, 2), NaN, Inf(1)}

Valores ==
    {PyStr(s) : s \in StringsUpTo(MaxStrLen) \cup Formatadas} \cup Numeros \cup {None}

(* ------------------ direct calls of converter_para_float -------------- *)

InitCoercao ==
    /\ valor \in Valores
    /\ ret = NoCall
    /\ primeira = NoCall
    /\ pc = "chamada"
    /\ dados = EmptyDF
    /\ df = EmptyDF
    /\ ldf = EmptyDF
    /\ mesmo = FALSE
    /\ exc = SemErro
    /\ coagida = FALSE
    /\ fontes = SoExcel
    /\ lidas = <<>>
    /\ buscas = <<>>
    /\ setores_unicos = <<>>
    /\ limites = SemLimites
    /\ arquivo = EmptyDF
    /\ SemMain /\ SemPainel

\* converter_para_float(valor)
Converter ==
    /\ pc = "chamada"
    /\ ret = NoCall
    /\ ret' = converter_para_float(valor)
    /\ UNCHANGED <<pc, dados, df, ldf, mesmo, exc, coagida, valor, primeira, fontes, lidas, buscas,
                 setores_unicos, limites, arquivo, vars_main, vars_painel, conexao>>

\* converter_para_float applied to the value the previous call returned
ConverterDeNovo ==
    /\ pc = "chamada"
    /\ ret.kind = "return"
    /\ primeira = NoCall
    /\ primeira' = ret
    /\ valor' = ret.v
    /\ ret' = converter_para_float(ret.v)
    /\ UNCHANGED <<pc, dados, df, ldf, mesmo, exc, coagida, fontes, lidas, buscas,
                 setores_unicos, limites, arquivo, vars_main, vars_painel, conexao>>

NextCoercao == Converter \/ ConverterDeNovo

SpecCoercao == InitCoercao /\ [][NextCoercao]_vars

(* ---------------- AnalisadorDados (data_analyzer.py) ------------------ *)
\* f"R$ {x:,.2f}" left as Python writes it, without the three replaces
QuantiaSemTroca(sinal, i, c) == <<"R", "$", " ">> \o sinal \o Format2f(i, c)

\* f"R$ {x:,.2f}" with ',' and '.' exchanged, of the amount i + c/100
\* after its sign
Quantia(sinal, i, c) ==
    <<"R", "$", " ">> \o sinal
        \o Replace(Replace(Replace(Format2f(i, c), ",", "X"), ".", ","), "X", ".")

\* the lambda of line 120 on one cell: the 'f' format code needs a number
FormatarReceita(v) ==
    CASE v.t = "int" ->
            Return(PyStr(Quantia(IF v.n < 0 THEN <<"-">> ELSE <<>>, Abs(v.n), 0)))
      [] v.t = "float" ->
            LET t == Arredondar(Abs(v.num) * 100, v.den)
            IN  Return(PyStr(Quantia(IF v.num < 0 THEN <<"-">> ELSE <<>>,
                                     t \div 100, t % 100)))
      [] v.t = "nan" -> Return(PyStr(<<"R", "$", " ", "n", "a", "n">>))
      [] v.t = "inf" ->
            Return(PyStr(<<"R", "$", " ">> \o (IF v.sg < 0 THEN <<"-">> ELSE <<>>)
                         \o <<"i", "n", "f">>))
      [] v.t = "str" -> Raise("ValueError")
      [] OTHER -> Raise("TypeError")

\* lines 24-27: pd.to_datetime with the default errors='raise', no try
converter_data_fundacao(f) ==
    IF ~HasCol(f, "data_fundacao") THEN Fail("KeyError", 26)
    ELSE IF ~IsSeries(f, "data_fundacao") THEN Fail("ValueError", 26)
    ELSE IF \E r \in 1..Len(f.rows) : ~ParseDate(Col(f, "data_fundacao")[r]).ok
         THEN Fail("ValueError", 26)
    ELSE LET datas == [r \in 1..Len(f.rows) |-> ParseDate(Col(f, "data_fundacao")[r]).v]
         IN  Ok(SetCol(SetCol(f, "data_fundacao", datas), "ano_fundacao",
                       [r \in 1..Len(f.rows) |-> Year(datas[r])]))

\* the mean of a group of a groupby is NaN when every cell of it is missing
GrupoSemValor(f, c) ==
    \E r \in 1..Len(f.rows) :
        /\ ~IsMissing(Col(f, "setor")[r])
        /\ \A q \in 1..Len(f.rows) :
              Col(f, "setor")[q] = Col(f, "setor")[r] => IsMissing(Col(f, c)[q])

\* lines 29-110, the three charts: they read setor, receita_anual and
\* numero_funcionarios, take group means (of numbers) and label the
\* employee bars with int(height)
visualizar(f) ==
    IF ~HasCol(f, "setor") THEN Fail("KeyError", 36)
    ELSE IF ~HasCol(f, "receita_anual") THEN Fail("KeyError", 57)
    ELSE IF HasStr(Col(f, "receita_anual")) THEN Fail("TypeError", 57)
    ELSE IF ~HasCol(f, "numero_funcionarios") THEN Fail("KeyError", 88)
    ELSE IF GrupoSemValor(f, "numero_funcionarios") THEN Fail("ValueError", 97)
    ELSE Ok(f)

colunas_ordenadas ==
    <<"_id", "nome_empresa", "setor", "receita_anual_formatada", "numero_funcionarios",
      "pais", "data_fundacao", "ano_fundacao">>

rename_dict ==
    [c \in {"nome_empresa", "setor", "receita_anual_formatada", "numero_funcionarios",
            "pais", "data_fundacao", "ano_fundacao", "_id"} |->
        CASE c = "nome_empresa" -> "Nome da Empresa"
          [] c = "setor" -> "Setor"
          [] c = "receita_anual_formatada" -> "Receita Anual"
          [] c = "numero_funcionarios" -> "Nº de Funcionários"
          [] c = "pais" -> "País"
          [] c = "data_fundacao" -> "Data de Fundação"
          [] c = "ano_fundacao" -> "Ano de Fundação"
          [] c = "_id" -> "ID"]

\* self.df[colunas]: the columns of f with the labels cs, in the order of cs
Selecionar(f, cs) ==
    Frame(cs, [r \in 1..Len(f.rows) |-> [i \in 1..Len(cs) |-> Col(f, cs[i])[r]]])

\* lines 119-155: self.df gets the formatted column; the exported table has
\* the columns of colunas_ordenadas that exist, under the labels of rename_dict
exportar_dados_csv(f) ==
    IF ~HasCol(f, "receita_anual") THEN Fail("KeyError", 120)
    ELSE LET s == Col(f, "receita_anual")
         IN  IF \E r \in 1..Len(s) : FormatarReceita(s[r]).kind = "raise"
             THEN LET r == CHOOSE r \in 1..Len(s) :
                             /\ FormatarReceita(s[r]).kind = "raise"
                             /\ \A q \in 1..(r - 1) : FormatarReceita(s[q]).kind # "raise"
                  IN  Fail(FormatarReceita(s[r]).exc, 120)
             ELSE LET g  == SetCol(f, "receita_anual_formatada",
                                   [r \in 1..Len(s) |-> FormatarReceita(s[r]).v])
                      colunas_para_exportar ==
                          SelectSeq(colunas_ordenadas, LAMBDA c : HasCol(g, c))
                  IN  [ok |-> TRUE, f |-> g,
                       df_export |-> Rename(Selecionar(g, colunas_para_exportar),
                                            rename_dict)]

\* the keys of the records of data_generator.py, with the _id that
\* pymongo's insert_many adds to them
Chaves ==
    <<"_id", "nome_empresa", "setor", "receita_anual", "numero_funcionarios",
      "pais", "data_fundacao">>

\* t is a list of at most one record with some of the keys of Chaves
TabelaDeRegistros(t) ==
    \E S \in SUBSET {Chaves[i] : i \in 1..Len(Chaves)}, n \in 0..1 :
        t = TabelaPadrao(SelectSeq(Chaves, LAMBDA c : c \in S), n)

(* --------- AnalisadorDados: gerar_relatorio and direct exports -------- *)
EtapasDoRelatorio ==
    {"analisador", "convertido", "visualizado", "exportado", "relatorio_erro"}

\* line 20: self.df = pd.DataFrame(dados_empresas)
InitRelatorio ==
    /\ pc = "analisador"
    /\ (TabelaDeLinhas(dados) \/ TabelaDeRegistros(dados))
    /\ df = dados
    /\ arquivo = EmptyDF
    /\ exc = SemErro
    /\ ret = NoCall
    /\ ldf = EmptyDF
    /\ mesmo = FALSE
    /\ coagida = FALSE
    /\ valor = None
    /\ primeira = NoCall
    /\ fontes = SoExcel
    /\ lidas = <<>>
    /\ buscas = <<>>
    /\ setores_unicos = <<>>
    /\ limites = SemLimites
    /\ SemMain /\ SemPainel

\* a method of the analyser that assigns self.df or raises
Metodo(r, depois) ==
    IF r.ok
    THEN /\ df' = r.f
         /\ pc' = depois
         /\ exc' = exc
    ELSE /\ pc' = "relatorio_erro"
         /\ exc' = [tipo |-> r.tipo, linha |-> r.linha]
         /\ df' = df

\* line 172: self.converter_data_fundacao()
ConverterDataFundacao ==
    /\ pc = "analisador"
    /\ Metodo(converter_data_fundacao(df), "convertido")
    /\ UNCHANGED <<dados, arquivo, ret, ldf, mesmo, coagida, valor, primeira,
                   fontes, lidas, buscas, setores_unicos, limites, vars_main, vars_painel, conexao>>

\* lines 174-177: the three charts
Visualizar ==
    /\ pc = "convertido"
    /\ Metodo(visualizar(df), "visualizado")
    /\ UNCHANGED <<dados, arquivo, ret, ldf, mesmo, coagida, valor, primeira,
                   fontes, lidas, buscas, setores_unicos, limites, vars_main, vars_painel, conexao>>

\* exportar_dados_csv(), called by gerar_relatorio (line 178) or directly on
\* a new analyser; writing the Excel file may fail, which only changes the
\* path returned (lines 158-163)
ExportarDadosCsv ==
    /\ pc \in {"analisador", "visualizado"}
    /\ LET r == exportar_dados_csv(df)
       IN  /\ Metodo(r, "exportado")
           /\ IF r.ok
              THEN /\ arquivo' = r.df_export
                   /\ \E caminho \in {"dados_empresas.xlsx", "dados_empresas.csv"} :
                         ret' = Return(caminho)
              ELSE UNCHANGED <<arquivo, ret>>
    /\ UNCHANGED <<dados, ldf, mesmo, coagida, valor, primeira,
                   fontes, lidas, buscas, setores_unicos, limites, vars_main, vars_painel, conexao>>

NextRelatorio == ConverterDataFundacao \/ Visualizar \/ ExportarDadosCsv

SpecRelatorio == InitRelatorio /\ [][NextRelatorio]_vars

(* ------------- export and re-import of a revenue value ---------------- *)
\* integer parts of the float amounts written and read back
InteirosDeQuantia == {0, 7, 999, 1000, 1234, 123456}

\* non-negative amounts with at most two decimal places, as float or int
Quantias ==
    {Frac(100 * i + c, 100) : i \in InteirosDeQuantia, c \in Centavos}
        \cup {PyInt(i) : i \in ParteInteira}

\* other cells of receita_anual: negative amounts, an amount with three
\* decimal places, a string and a missing value
OutrasQuantias ==
    {Frac(-(100 * i + c), 100) : i \in InteirosDeQuantia \ {0}, c \in Centavos}
        \cup {Frac(1, 8), PyInt(-3), PyStr(<<"1", ",", "5">>), None}

InitIdaEVolta ==
    /\ pc = "quantia"
    /\ valor \in Quantias \cup OutrasQuantias
    /\ primeira = NoCall
    /\ ret = NoCall
    /\ exc = SemErro
    /\ dados = EmptyDF
    /\ df = EmptyDF
    /\ ldf = EmptyDF
    /\ mesmo = FALSE
    /\ coagida = FALSE
    /\ fontes = SoExcel
    /\ lidas = <<>>
    /\ buscas = <<>>
    /\ setores_unicos = <<>>
    /\ limites = SemLimites
    /\ arquivo = EmptyDF
    /\ SemMain /\ SemPainel

\* data_analyzer.py line 120 on one cell: the string written to the file
EscreverReceita ==
    /\ pc = "quantia"
    /\ primeira' = FormatarReceita(valor)
    /\ IF FormatarReceita(valor).kind = "return"
       THEN pc' = "escrita" /\ exc' = exc
       ELSE pc' = "relatorio_erro"
            /\ exc' = [tipo |-> FormatarReceita(valor).exc, linha |-> 120]
    /\ UNCHANGED <<valor, ret, dados, df, ldf, mesmo, coagida, fontes, lidas, buscas,
                   setores_unicos, limites, arquivo, vars_main, vars_painel, conexao>>

\* dashboard.py line 167 on the cell read back from the file
LerReceita ==
    /\ pc = "escrita"
    /\ ret' = converter_para_float(primeira.v)
    /\ pc' = "lida"
    /\ UNCHANGED <<valor, primeira, exc, dados, df, ldf, mesmo, coagida, fontes, lidas,
                   buscas, setores_unicos, limites, arquivo, vars_main, vars_painel, conexao>>

NextIdaEVolta == EscreverReceita \/ LerReceita

SpecIdaEVolta == InitIdaEVolta /\ [][NextIdaEVolta]_vars

(* ------------- dashboard callbacks (dashboard.py 576-846) ------------- *)
\* the records of the loaded table: the keys of data_generator.py
ChavesDoPainel ==
    <<"nome_empresa", "setor", "receita_anual", "numero_funcionarios", "pais",
      "data_fundacao">>

ReceitasDoCatalogo ==
    <<PyInt(1400000), PyInt(12400000), NaN, PyInt(30000000), PyInt(2600000),
      PyInt(7500000), PyInt(30000000), PyInt(12600000)>>
FuncionariosDoCatalogo == <<PyInt(10), PyInt(60), PyInt(300)>>
SetoresDoCatalogo == <<PyStr(<<"T", "e", "c">>), PyStr(<<"F", "i", "n">>)>>
DatasDoCatalogo ==
    <<PyStr(<<"2", "0", "0", "1", "-", "0", "5", "-", "1", "7">>),
      PyStr(<<"2", "0", "0", "1", "-", "0", "5", "-", "1", "7">>),
      PyStr(<<"1", "9", "9", "9", "-", "1", "2", "-", "3", "1">>)>>

Ciclo(s, k) == s[((k - 1) % Len(s)) + 1]

\* the k-th company of the catalogue the tables are taken from
Empresa(k) ==
    <<PyStr(<<"e", DigitChar(k % 10)>>), Ciclo(SetoresDoCatalogo, k),
      Ciclo(ReceitasDoCatalogo, k), Ciclo(FuncionariosDoCatalogo, k), Texto,
      Ciclo(DatasDoCatalogo, k)>>

\* t holds the first n companies of the catalogue
TabelaDoPainel(t) ==
    \E n \in 1..MaxEmpresas : t = Frame(ChavesDoPainel, [k \in 1..n |-> Empresa(k)])

\* lines 158-357: the start-up of the module on the loaded table t, with bs
\* the results of the country searches
Iniciar(t, bs) ==
    LET A == {Ok(AnoFundacaoPasso(r.f)) : r \in {Renomear(t)}}
        B == {ReceitaPorFuncionarioPasso(a.f) : a \in A}
        C == {IF b.ok THEN PortePasso(b.f) ELSE b : b \in B}
        D == {IF c.ok THEN IdadeEmpresaPasso(c.f) ELSE c : c \in C}
        E == {IF d.ok THEN CoagirReceitaPasso(d.f) ELSE d : d \in D}
        G == {IF e.ok THEN CodigoPaisPasso(e.f, bs) ELSE e : e \in E}
        H == {IF ~g.ok THEN g
              ELSE IF ~PaletaPasso(g.f).ok THEN PaletaPasso(g.f)
              ELSE IF ~LimitesPasso(g.f).ok THEN LimitesPasso(g.f)
              ELSE IF ~MarcasPasso(LimitesPasso(g.f).limites).ok
                   THEN MarcasPasso(LimitesPasso(g.f).limites)
              ELSE IF ~LayoutPasso(g.f).ok THEN LayoutPasso(g.f)
              ELSE [ok |-> TRUE, f |-> g.f, limites |-> LimitesPasso(g.f).limites,
                    setores_unicos |-> PaletaPasso(g.f).setores_unicos] : g \in G}
    IN  CHOOSE h \in H : TRUE

\* the cell of a row of f under the label c
Cel(f, row, c) == row[ColIdx(f, c)]

\* lo <= v <= hi for a cell v; every comparison with a missing value is False
Entre(v, lo, hi) ==
    /\ IsFinite(v)
    /\ MenorOuIgual(PyInt(lo), v)
    /\ MenorOuIgual(v, PyInt(hi))

\* Series.isin(vs): a missing cell is matched by a missing value of vs
IsIn(v, vs) ==
    \E i \in 1..Len(vs) : IF IsMissing(v) THEN IsMissing(vs[i]) ELSE vs[i] = v

\* sort_values('receita_anual', ascending=False): the row goes after the
\* rows whose revenue is at least as high, a missing revenue goes last
RECURSIVE InserirPorReceita(_, _, _)
InserirPorReceita(f, ord, row) ==
    IF ord = <<>> THEN <<row>>
    ELSE IF \/ IsMissing(Cel(f, row, "receita_anual"))
            \/ /\ ~IsMissing(Cel(f, Head(ord), "receita_anual"))
               /\ MenorOuIgual(Cel(f, row, "receita_anual"),
                               Cel(f, Head(ord), "receita_anual"))
         THEN <<Head(ord)>> \o InserirPorReceita(f, Tail(ord), row)
         ELSE <<row>> \o ord

RECURSIVE OrdenarPorReceita(_, _)
OrdenarPorReceita(f, rows) ==
    IF rows = <<>> THEN <<>>
    ELSE InserirPorReceita(f, OrdenarPorReceita(f, SubSeq(rows, 1, Len(rows) - 1)),
                           rows[Len(rows)])

\* .head(n)
Primeiras(rows, n) == SubSeq(rows, 1, IF Len(rows) < n THEN Len(rows) ELSE n)

ColunasDoPainel ==
    <<"setor", "receita_anual", "numero_funcionarios", "ano_fundacao", "porte",
      "nome_empresa", "pais">>

\* the revenue filter with the upper bound left out
FiltroDeReceitaSemTeto(f, faixa) ==
    Frame(f.cols, SelectSeq(f.rows, LAMBDA row :
        /\ IsFinite(Cel(f, row, "receita_anual"))
        /\ MenorOuIgual(PyInt(faixa[1] * 1000000), Cel(f, row, "receita_anual"))))

\* lines 602-603
FiltroDeReceita(f, faixa) ==
    Frame(f.cols, SelectSeq(f.rows, LAMBDA row :
        Entre(Cel(f, row, "receita_anual"), faixa[1] * 1000000, faixa[2] * 1000000)))

\* lines 593-833: the rows selected by the filters (dff = dff[mask], five
\* times) and the rows of the Top-N chart; the other charts, the summary
\* and the table are drawn from the selected rows
update_graficos(f, c) ==
    IF \E i \in 1..Len(ColunasDoPainel) : ~HasCol(f, ColunasDoPainel[i])
    THEN Fail("KeyError", 599)
    ELSE LET d1 == IF c.setores # <<>>
                   THEN Frame(f.cols, SelectSeq(f.rows, LAMBDA row :
                            IsIn(Cel(f, row, "setor"), c.setores)))
                   ELSE f
             d2 == FiltroDeReceita(d1, c.receita)
             d3 == Frame(f.cols, SelectSeq(d2.rows, LAMBDA row :
                       Entre(Cel(f, row, "numero_funcionarios"),
                             c.funcionarios[1], c.funcionarios[2])))
             d4 == Frame(f.cols, SelectSeq(d3.rows, LAMBDA row :
                       Entre(Cel(f, row, "ano_fundacao"), c.ano[1], c.ano[2])))
             d5 == IF c.porte # <<>>
                   THEN Frame(f.cols, SelectSeq(d4.rows, LAMBDA row :
                            IsIn(Cel(f, row, "porte"), c.porte)))
                   ELSE d4
         IN  [ok |-> TRUE,
              s  |-> [selecao |-> d5.rows,
                      top |-> Primeiras(OrdenarPorReceita(f, d5.rows), c.top_n),
                      ok |-> TRUE]]

\* lines 310-368: the values the layout gives the six controls
ControlesIniciais(f, l) ==
    [setores |-> <<>>,
     receita |-> <<0, l.receita_max.n>>,
     funcionarios |-> <<0, l.funcionarios_max.n>>,
     ano |-> <<l.ano_min.n, l.ano_max.n>>,
     porte |-> Unicos(Col(f, "porte")),
     top_n |-> 10]

\* lines 835-846: the five filter controls get their initial values
limpar_filtros(f, l, c) == [ControlesIniciais(f, l) EXCEPT !.top_n = c.top_n]

\* values the user can give a control
Opcoes(campo, f, l) ==
    CASE campo = "setores" ->
            {<<>>, <<Col(f, "setor")[1]>>}
      [] campo = "receita" ->
            {<<0, l.receita_max.n>>,
             IF l.receita_max.n >= 10 THEN <<10, l.receita_max.n>> ELSE <<0, 0>>}
      [] campo = "funcionarios" ->
            {<<0, l.funcionarios_max.n>>,
             IF l.funcionarios_max.n >= 50 THEN <<50, l.funcionarios_max.n>>
             ELSE <<0, 0>>}
      [] campo = "ano" ->
            {<<l.ano_min.n, l.ano_max.n>>, <<l.ano_max.n, l.ano_max.n>>}
      [] campo = "porte" ->
            {Unicos(Col(f, "porte")), <<>>, <<Col(f, "porte")[1]>>}
      [] campo = "top_n" -> {5, 10}

\* an update of every event of the page
DisparaSempre(evento) == TRUE

\* lines 576-592: 'aplicar-filtros-btn' n_clicks is the only Input of
\* update_graficos, the six controls are State
Dispara(evento) == evento = "aplicar"

\* the outputs after an event: those of update_graficos on the controls c
\* when the event fires it and it returns, the ones on display otherwise
SaidasDepois(evento, f, c, s) ==
    IF Dispara(evento) /\ update_graficos(f, c).ok THEN update_graficos(f, c).s ELSE s

InitPainel ==
    /\ pc = "layout"
    /\ TabelaDoPainel(dados)
    /\ fontes = SoExcel
    /\ lidas = carregar_dados(fontes, dados).lidas
    /\ \E b \in {x \in ResultadosDaBusca : x.kind = "lista" /\ Len(x.alpha_3) <= 1} :
          /\ buscas = [r \in 1..Len(dados.rows) |-> b]
          /\ \E i \in {Iniciar(dados, buscas)} :
                /\ i.ok
                /\ df = i.f
                /\ limites = i.limites
                /\ setores_unicos = i.setores_unicos
    /\ controles = ControlesIniciais(df, limites)
    /\ n_clicks = [aplicar |-> 0, limpar |-> 0]
    /\ saidas = SemSaidas
    /\ ldf = EmptyDF
    /\ mesmo = FALSE
    /\ exc = SemErro
    /\ coagida = TRUE
    /\ valor = None
    /\ ret = NoCall
    /\ primeira = NoCall
    /\ arquivo = EmptyDF
    /\ SemMain

resto_painel ==
    <<dados, df, ldf, mesmo, exc, coagida, valor, ret, primeira, fontes, lidas, buscas,
      setores_unicos, limites, arquivo, vars_main, conexao>>

\* the page is opened: Dash calls update_graficos once with n_clicks None
\* and the values of the layout; limpar_filtros raises PreventUpdate
AbrirPagina ==
    /\ pc = "layout"
    /\ pc' = "painel"
    /\ saidas' = IF update_graficos(df, controles).ok
                 THEN update_graficos(df, controles).s ELSE saidas
    /\ UNCHANGED <<controles, n_clicks, resto_painel>>

\* the user gives one control another value
MudarControle ==
    /\ pc = "painel"
    /\ \E campo \in DOMAIN controles :
          \E v \in Opcoes(campo, df, limites) :
             /\ v # controles[campo]
             /\ controles' = [controles EXCEPT ![campo] = v]
    /\ saidas' = SaidasDepois("controle", df, controles', saidas)
    /\ UNCHANGED <<pc, n_clicks, resto_painel>>

\* a click on 'Limpar Filtros'
LimparFiltros ==
    /\ pc = "painel"
    /\ n_clicks.aplicar + n_clicks.limpar < MaxCliques
    /\ n_clicks' = [n_clicks EXCEPT !.limpar = @ + 1]
    /\ controles' = limpar_filtros(df, limites, controles)
    /\ saidas' = SaidasDepois("limpar", df, controles', saidas)
    /\ UNCHANGED <<pc, resto_painel>>

\* a click on 'Aplicar Filtros'
AplicarFiltros ==
    /\ pc = "painel"
    /\ n_clicks.aplicar + n_clicks.limpar < MaxCliques
    /\ n_clicks' = [n_clicks EXCEPT !.aplicar = @ + 1]
    /\ saidas' = SaidasDepois("aplicar", df, controles, saidas)
    /\ UNCHANGED <<pc, controles, resto_painel>>

NextPainel == AbrirPagina \/ MudarControle \/ LimparFiltros \/ AplicarFiltros

SpecPainel == InitPainel /\ [][NextPainel]_vars

(* ----------------------------- main.py -------------------------------- *)
\* gerar_empresas(quantidade_empresas) of run e: TamanhoDoLote stands for
\* the 100 records of line 37
Lote(e) == [k \in 1..TamanhoDoLote |-> [lote |-> e, i |-> k]]

\* line 48: if not dados_existentes
DeveInserir(dados_existentes) == dados_existentes = <<>>

\* the dictionary gerar_relatorio returns for the documents it is given
Relatorio(docs) == [t |-> "dict", documentos |-> docs]

InitMain ==
    /\ pc = "main_inicio"
    /\ execucao = 1
    /\ colecao = <<>>
    /\ conexao = "nenhuma"
    /\ dados_empresas = <<>>
    /\ exc = SemErro
    /\ ret = NoCall
    /\ dados = EmptyDF
    /\ df = EmptyDF
    /\ ldf = EmptyDF
    /\ mesmo = FALSE
    /\ coagida = FALSE
    /\ valor = None
    /\ primeira = NoCall
    /\ fontes = SoExcel
    /\ lidas = <<>>
    /\ buscas = <<>>
    /\ setores_unicos = <<>>
    /\ limites = SemLimites
    /\ arquivo = EmptyDF
    /\ SemPainel

\* main without its except clause: the exception leaves main
Propagar(tipo, linha) ==
    /\ pc' = "erro"
    /\ exc' = [tipo |-> tipo, linha |-> linha]
    /\ ret' = NoCall

\* lines 83-85: the exception is logged and main returns None
Capturar(tipo, linha) ==
    /\ pc' = "main_fim"
    /\ exc' = [tipo |-> tipo, linha |-> linha]
    /\ ret' = Return(None)

\* a step of main that goes on to the next one
Seguir(depois) ==
    /\ pc' = depois
    /\ UNCHANGED <<exc, ret>>

resto_main ==
    <<dados, df, ldf, mesmo, coagida, valor, primeira, fontes, lidas, buscas,
      setores_unicos, limites, arquivo, vars_painel>>

\* lines 33-39: gerar_empresas
MainGerar ==
    /\ pc = "main_inicio"
    /\ (Seguir("gerado") \/ Capturar("Exception", 38))
    /\ UNCHANGED <<conexao, colecao, execucao, dados_empresas, resto_main>>

\* lines 42-43: MongoDBManager()
MainConectar ==
    /\ pc = "gerado"
    /\ \/ Seguir("conectado") /\ conexao' = "aberta"
       \/ Capturar("PyMongoError", 43) /\ conexao' = conexao
    /\ UNCHANGED <<colecao, execucao, dados_empresas, resto_main>>

\* lines 46-56: the batch is inserted when buscar_todos returned nothing;
\* insert_many may fail after it has written some of the documents
MainDados ==
    /\ pc = "conectado"
    /\ \/ Capturar("PyMongoError", 46) /\ UNCHANGED <<colecao, dados_empresas>>
       \/ /\ ~DeveInserir(colecao)
          /\ Seguir("dados")
          /\ dados_empresas' = colecao
          /\ colecao' = colecao
       \/ /\ DeveInserir(colecao)
          /\ \E k \in 0..TamanhoDoLote :
                /\ colecao' = colecao \o SubSeq(Lote(execucao), 1, k)
                /\ IF k < TamanhoDoLote
                   THEN Capturar("BulkWriteError", 51) /\ dados_empresas' = dados_empresas
                   ELSE \/ Seguir("dados") /\ dados_empresas' = colecao'
                        \/ Capturar("PyMongoError", 53) /\ dados_empresas' = dados_empresas
    /\ UNCHANGED <<conexao, execucao, resto_main>>

\* lines 59-67: AnalisadorDados(dados_empresas).gerar_relatorio()
MainAnalisar ==
    /\ pc = "dados"
    /\ (Seguir("analisado") \/ Capturar("Exception", 61))
    /\ UNCHANGED <<conexao, colecao, execucao, dados_empresas, resto_main>>

\* lines 70-75: calcular_media_receita_por_setor
MainAgregar ==
    /\ pc = "analisado"
    /\ (Seguir("agregado") \/ Capturar("PyMongoError", 71))
    /\ UNCHANGED <<conexao, colecao, execucao, dados_empresas, resto_main>>

\* lines 77-81: close and return relatorio
MainFechar ==
    /\ pc = "agregado"
    /\ \/ /\ conexao' = "fechada"
          /\ pc' = "main_fim"
          /\ ret' = Return(Relatorio(dados_empresas))
          /\ exc' = exc
       \/ Capturar("PyMongoError", 78) /\ conexao' = conexao
    /\ UNCHANGED <<colecao, execucao, dados_empresas, resto_main>>

\* main() is run again
MainDeNovo ==
    /\ pc = "main_fim"
    /\ execucao < MaxExecucoes
    /\ execucao' = execucao + 1
    /\ pc' = "main_inicio"
    /\ conexao' = "nenhuma"
    /\ dados_empresas' = <<>>
    /\ exc' = SemErro
    /\ ret' = NoCall
    /\ UNCHANGED <<colecao, resto_main>>

NextMain ==
    \/ MainGerar
    \/ MainConectar
    \/ MainDados
    \/ MainAnalisar
    \/ MainAgregar
    \/ MainFechar
    \/ MainDeNovo

SpecMain == InitMain /\ [][NextMain]_vars

(* ====================================================================== *)
(* Properties                                                             *)
(* ====================================================================== *)
\* the frame normalizar_colunas works on while it runs (also when it
\* raised), the module-level df otherwise
\* the table carregar_dados returned to line 159
Carregada == carregar_dados(fontes, dados).f

EmNormalizar ==
    \/ pc \in {"renomeado", "ano", "receita_por_funcionario", "porte"}
    \/ (pc = "erro" /\ exc.linha \in 100..146)
Quadro == IF EmNormalizar THEN ldf ELSE df

DepoisDeRenomear == pc \notin {"inicio", "carregado", "chamada"}
DepoisDePorte == pc \in {"porte", "normalizado", "coagido"}
DepoisDeDividir == pc \in {"receita_por_funcionario", "porte", "normalizado", "coagido"}

ReaisFormatados == PyStr(<<"R", "$", " ", "1", ".", "2", "3", "4", ",", "5", "6">>)

\* v is neither a number nor a string that parses to one after cleaning
NaoConversivel(v) ==
    /\ ~IsNumber(v)
    /\ ~(v.t = "str" /\ ParseFloat(Limpar(v.s)).ok)

\* C1: converter_para_float never raises; for an input that is neither a
\* number nor a string that parses to a number after cleaning it returns
\* the missing sentinel NaN.  (Checked under SpecCoercao.)
C1_NuncaLevanta ==
    ret # NoCall =>
        /\ ret.kind = "return"
        /\ (NaoConversivel(valor) => ret.v = NaN)

\* v < b for a finite number v and an integer b
Menor(v, b) == Num(v) \div Den(v) < b

\* the tier of the half-open, left-closed intervals of the specification
FaixaSemiAberta(v) ==
    IF Menor(v, 10000000) THEN "Micro"
    ELSE IF Menor(v, 100000000) THEN "Pequena"
    ELSE IF Menor(v, 500000000) THEN "Média"
    ELSE IF Menor(v, 1000000000) THEN "Grande"
    ELSE "Corporação"

\* C2: the size tier uses half-open revenue intervals closed on the left:
\* [0, 10M) Micro, [10M, 100M) Pequena, [100M, 500M) Média, [500M, 1B)
\* Grande, [1B, inf) Corporação.
C2_FaixasSemiAbertas ==
    (DepoisDePorte /\ HasCol(df, "receita_anual") /\ ~EmNormalizar) =>
        \A r \in 1..Len(df.rows) :
            LET v == Col(df, "receita_anual")[r]
            IN  (IsFinite(v) /\ Num(v) >= 0) =>
                    Col(df, "porte")[r] = Cat(FaixaSemiAberta(v))

\* C3: receita_por_funcionario is missing when numero_funcionarios is 0 or
\* when revenue or employee count is missing, equals receita_anual /
\* numero_funcionarios otherwise, and is never infinite.
C3_ReceitaPorFuncionario ==
    (DepoisDeDividir /\ HasCol(Quadro, "receita_por_funcionario")) =>
        \A r \in 1..Len(Quadro.rows) :
            LET rev == Col(Quadro, "receita_anual")[r]
                emp == Col(Quadro, "numero_funcionarios")[r]
                q   == Col(Quadro, "receita_por_funcionario")[r]
            IN  /\ q.t # "inf"
                /\ IF IsMissing(rev) \/ IsMissing(emp) THEN IsMissing(q)
                   ELSE IF Num(emp) = 0 THEN IsMissing(q)
                   ELSE q = Frac(Num(rev), Den(rev) * Num(emp))

\* C4: the derived columns receita_por_funcionario and porte are computed
\* only after receita_anual has been coerced by converter_para_float.
C4_DerivadasDepoisDaCoercao ==
    (HasCol(Quadro, "receita_por_funcionario") \/ HasCol(Quadro, "porte")) => coagida

\* a table with raw labels, a row without employee count and a row whose
\* revenue is a currency-formatted string
TabelaMista(f) ==
    /\ f.cols = <<"Nome da Empresa", "Receita Anual", "Nº de Funcionários">>
    /\ \E r \in 1..Len(f.rows) : IsMissing(f.rows[r][3])
    /\ \E r \in 1..Len(f.rows) : f.rows[r][2] = ReaisFormatados

\* C5: on such a table the pipeline (normalizar_colunas, then the revenue
\* coercion) raises nothing, yields one row per input row, and the row
\* without employee count has receita_por_funcionario missing.
C5_PontaAPonta ==
    TabelaMista(Carregada) =>
        /\ pc # "erro"
        /\ (pc = "coagido" =>
               /\ Len(df.rows) = Len(Carregada.rows)
               /\ \A r \in 1..Len(df.rows) :
                     IsMissing(Carregada.rows[r][3]) =>
                         IsMissing(Col(df, "receita_por_funcionario")[r]))

\* C6: normalizar_colunas renames every column whose label is a recognized
\* synonym to the canonical name of the mapping, keeps every other column
\* under its own label, in place, and the renaming raises nothing, also
\* when no label is recognized.
C6_Renomeia ==
    DepoisDeRenomear =>
        /\ Len(Quadro.cols) >= Len(Carregada.cols)
        /\ \A i \in 1..Len(Carregada.cols) :
              /\ Carregada.cols[i] \in DOMAIN mapeamento =>
                    Quadro.cols[i] = mapeamento[Carregada.cols[i]]
              /\ Carregada.cols[i] \notin DOMAIN mapeamento =>
                    Quadro.cols[i] = Carregada.cols[i]
              /\ Carregada.cols[i] = "Nº Funcionários" =>
                    Quadro.cols[i] = "numero_funcionarios"
              /\ Carregada.cols[i] = "Receita Anual" => Quadro.cols[i] = "receita_anual"
        /\ (pc = "renomeado" => ldf.rows = Carregada.rows)
        /\ (pc = "erro" => exc.linha > 120)

C6_Witness ==
    /\ pc = "renomeado"
    /\ Carregada.cols = <<"Setor", "Nº Funcionários", "Website">>
    /\ ldf.cols = <<"setor", "numero_funcionarios", "Website">>

\* C7: for a string, converter_para_float strips R, $, whitespace and the
\* '.' thousands separators, turns the decimal comma into a point and
\* parses: a Brazilian-formatted amount with integer part i and cents c
\* comes back as i + c/100 ("R$ 1.234,56" as 1234.56).  (SpecCoercao.)
C7_ValorFormatado ==
    (ret # NoCall /\ primeira = NoCall) =>
        /\ \A i \in ParteInteira, c \in Centavos :
              valor = PyStr(receita_anual_formatada(i, c)) =>
                  ret = Return(Frac(100 * i + c, 100))
        /\ (valor = ReaisFormatados => ret = Return(Frac(123456, 100)))
        /\ (valor = PyStr(<<"1", ",", "5">>) => ret = Return(Frac(3, 2)))
        /\ (valor = PyStr(<<"R", "$", "5">>) => ret = Return(Frac(5, 1)))

C7_Witness ==
    /\ valor = ReaisFormatados
    /\ ret = Return(Frac(123456, 100))

\* a and b are the same number (finite floats are kept in lowest terms)
MesmoNumero(a, b) ==
    IF a.t \in {"nan", "inf"} \/ b.t \in {"nan", "inf"} THEN a = b
    ELSE Num(a) = Num(b) /\ Den(a) = Den(b)

\* C8: coercion is idempotent: when converter_para_float returned a value,
\* applying it to that value returns the same value; an input that is
\* already a number comes back with the same numeric value.  (SpecCoercao.)
C8_Idempotente ==
    /\ primeira # NoCall => ret = primeira
    /\ (ret # NoCall /\ IsNumber(valor)) =>
          (ret.kind = "return" /\ ret.v.t # "int" /\ MesmoNumero(ret.v, valor))

C8_Witness ==
    /\ primeira = Return(Frac(123456, 100))
    /\ ret = primeira

\* C9: renaming is idempotent: applying the rename step to the frame it
\* produced changes no label (no canonical name is a key of the mapping).
C9_RenomearIdempotente ==
    DepoisDeRenomear =>
        /\ Renomear(Quadro).f.cols = Quadro.cols
        /\ ~Renomear(Quadro).novo

C9_Witness ==
    /\ pc = "renomeado"
    /\ Carregada.cols = <<"Ano Fundação", "ID">>
    /\ ldf.cols = <<"ano_fundacao", "id">>

\* C10: a row whose receita_anual is missing or negative has no size tier.
C10_SemFaixa ==
    (DepoisDePorte /\ HasCol(Quadro, "receita_anual")) =>
        \A r \in 1..Len(Quadro.rows) :
            LET v == Col(Quadro, "receita_anual")[r]
            IN  (IsMissing(v) \/ (IsFinite(v) /\ Num(v) < 0) \/ v = Inf(-1)) =>
                    Col(Quadro, "porte")[r] = NaN

C10_Witness ==
    /\ pc = "coagido"
    /\ HasCol(df, "porte")
    /\ \E r \in 1..Len(df.rows) :
          /\ Col(df, "receita_anual")[r] = Frac(-1, 1)
          /\ Col(df, "porte")[r] = NaN
    /\ \E r \in 1..Len(df.rows) :
          /\ Col(df, "receita_anual")[r] = NaN
          /\ Col(df, "porte")[r] = NaN

\* the module-level df holds what normalizar_colunas returned
Normalizado ==
    pc \in {"normalizado", "coagido", "codigo", "paleta", "limites", "marcas", "layout"}

\* C11: normalizar_colunas adds a derived column only when its prerequisite
\* columns exist: receita_por_funcionario needs receita_anual and
\* numero_funcionarios, porte needs receita_anual, idade_empresa needs
\* ano_fundacao.  With a prerequisite absent the derived column is absent
\* from what is returned, and the step that would derive it raises nothing.
C11_DerivadasSoComPrerequisitos ==
    /\ Normalizado =>
          /\ HasCol(df, "receita_por_funcionario") =>
                HasCol(df, "receita_anual") /\ HasCol(df, "numero_funcionarios")
          /\ HasCol(df, "porte") => HasCol(df, "receita_anual")
          /\ HasCol(df, "idade_empresa") => HasCol(df, "ano_fundacao")
    /\ (pc = "erro" /\ exc.linha = 133) =>
          HasCol(ldf, "receita_anual") /\ HasCol(ldf, "numero_funcionarios")
    /\ (pc = "erro" /\ exc.linha = 139) => HasCol(ldf, "receita_anual")
    /\ (pc = "erro" /\ exc.linha = 144) => HasCol(ldf, "ano_fundacao")

\* a table with revenue but neither employees nor a founding year came
\* back with the size tier alone
C11_Witness ==
    /\ pc = "normalizado"
    /\ Len(df.rows) > 0
    /\ HasCol(df, "receita_anual") /\ HasCol(df, "porte")
    /\ ~HasCol(df, "numero_funcionarios") /\ ~HasCol(df, "receita_por_funcionario")
    /\ ~HasCol(df, "ano_fundacao") /\ ~HasCol(df, "idade_empresa")

\* the founding-year step of normalizar_colunas has run
DepoisDoAno == pc \notin {"inicio", "carregado", "renomeado", "chamada"}

\* a founding-date cell that is a calendar date or missing
DataValida(v) ==
    \/ IsMissing(v)
    \/ /\ v.t = "str"
       /\ v.s \in {<<"2", "0", "0", "1", "-", "0", "5", "-", "1", "7">>,
                   <<"1", "9", "9", "9", "-", "1", "2", "-", "3", "1">>}
\* its calendar year
AnoDoCalendario(v) ==
    IF IsMissing(v) THEN NaN
    ELSE IF v.s[1] = "2" THEN PyInt(2001) ELSE PyInt(1999)

\* the cells under the label c are the same in f and g
MesmaColuna(f, g, c) ==
    \A i \in 1..Len(f.cols) :
        f.cols[i] = c => /\ g.cols[i] = c
                         /\ \A r \in 1..Len(f.rows) : g.rows[r][i] = f.rows[r][i]

\* C12: with ano_fundacao absent and data_fundacao present, ano_fundacao is
\* the calendar year of the parsed date; when parsing the date column
\* fails, ano_fundacao and idade_empresa stay absent, data_fundacao is left
\* as it was and nothing is raised by the step; with ano_fundacao already
\* present the date column is not parsed; with neither, ano_fundacao is
\* absent.
C12_AnoFundacao ==
    LET antes == Renomear(Carregada).f
    IN  DepoisDoAno =>
          /\ ~(pc = "erro" /\ exc.linha \in 122..128)
          /\ HasCol(antes, "ano_fundacao") => MesmaColuna(antes, Quadro, "data_fundacao")
          /\ (~HasCol(antes, "ano_fundacao") /\ ~HasCol(antes, "data_fundacao")) =>
                ~HasCol(Quadro, "ano_fundacao")
          /\ (~HasCol(antes, "ano_fundacao") /\ HasCol(antes, "data_fundacao")) =>
                IF /\ IsSeries(antes, "data_fundacao")
                   /\ \A r \in 1..Len(antes.rows) : DataValida(Col(antes, "data_fundacao")[r])
                THEN /\ IsSeries(Quadro, "ano_fundacao")
                     /\ \A r \in 1..Len(antes.rows) :
                           Col(Quadro, "ano_fundacao")[r] =
                               AnoDoCalendario(Col(antes, "data_fundacao")[r])
                ELSE /\ ~HasCol(Quadro, "ano_fundacao")
                     /\ ~HasCol(Quadro, "idade_empresa")
                     /\ MesmaColuna(antes, Quadro, "data_fundacao")

\* normalizar_colunas returned a table whose date column did not parse
C12_Witness ==
    /\ pc = "normalizado"
    /\ IsSeries(Carregada, "Data de Fundação")
    /\ \E r \in 1..Len(Carregada.rows) :
          ~DataValida(Col(Carregada, "Data de Fundação")[r])
    /\ ~HasCol(df, "ano_fundacao")
    /\ Col(df, "data_fundacao") = Col(Carregada, "Data de Fundação")

\* the founding year expected of a date cell that degrades alone
AnoDaCelula(v) == IF DataValida(v) THEN AnoDoCalendario(v) ELSE NaN

\* the founding year of row r of f, missing also when f has no such column
AnoDaLinha(f, r) == IF IsSeries(f, "ano_fundacao") THEN Col(f, "ano_fundacao")[r] ELSE NaN

\* C13: one unparseable founding-date cell degrades only that cell: the row
\* is kept, its founding year is missing, the founding years of the other
\* rows are derived, and neither normalizar_colunas nor
\* AnalisadorDados.converter_data_fundacao / gerar_relatorio fails.
C13_SoACelulaDegrada ==
    LET antes == Renomear(Carregada).f
    IN  /\ (DepoisDoAno /\ pc \notin EtapasDoRelatorio
             /\ ~HasCol(antes, "ano_fundacao") /\ IsSeries(antes, "data_fundacao")) =>
              /\ ~(pc = "erro" /\ exc.linha \in 122..128)
              /\ Len(Quadro.rows) = Len(antes.rows)
              /\ \A r \in 1..Len(antes.rows) :
                    AnoDaLinha(Quadro, r) = AnoDaCelula(Col(antes, "data_fundacao")[r])
        /\ (pc \in EtapasDoRelatorio /\ IsSeries(dados, "data_fundacao")) =>
              /\ ~(pc = "relatorio_erro" /\ exc.linha \in 24..27)
              /\ pc = "convertido" =>
                    /\ Len(df.rows) = Len(dados.rows)
                    /\ \A r \in 1..Len(dados.rows) :
                          AnoDaLinha(df, r) = AnoDaCelula(Col(dados, "data_fundacao")[r])

\* C14: obter_codigo_pais never raises: when the lookup returns a non-empty
\* list of matches the result is the alpha-3 code of the first, when it
\* returns no match or raises (as for a name that is no string) it is None.
C14_CodigoPais ==
    /\ ~(pc = "erro" /\ exc.linha \in 149..171)
    /\ (pc = "codigo" /\ HasCol(df, "pais")) =>
          /\ IsSeries(df, "codigo_pais")
          /\ \A r \in 1..Len(df.rows) :
                Col(df, "codigo_pais")[r] =
                    IF buscas[r].kind = "lista" /\ buscas[r].alpha_3 # <<>>
                    THEN Head(buscas[r].alpha_3) ELSE None

\* a country whose lookup raised something other than LookupError got None
C14_Witness ==
    /\ pc = "codigo"
    /\ IsSeries(df, "pais")
    /\ \E r \in 1..Len(df.rows) :
          /\ buscas[r] = [kind |-> "raise", exc |-> "AttributeError"]
          /\ Col(df, "codigo_pais")[r] = None

\* C15: normalizar_colunas does not mutate the table its caller passed:
\* while it runs, and when it has raised, the caller's table has the
\* columns and the cells it had at the call.
C15_NaoMutaEntrada == EmNormalizar => df = Carregada

\* no source can supply a table: MongoDB has no documents or fails, and
\* each data file is absent or unreadable
SemTabela ==
    /\ fontes.mongo # "docs"
    /\ fontes.excel # "ok"
    /\ fontes.csv # "ok"

\* C16: an absent input is fatal and reported: with no table available the
\* pipeline (load, normalise, coerce, country codes) ends in an error
\* instead of handing on a table, and no other input problem ends it in an
\* error.
C16_SoEntradaAusenteFalha ==
    /\ (SemTabela /\ pc # "inicio") => (pc = "erro" /\ exc.linha <= 171)
    /\ (pc = "erro" /\ exc.linha <= 171) => SemTabela

\* the six fields of the claim and their labels in the exported file
CamposExportados ==
    {<<"nome_empresa", "Nome da Empresa">>, <<"setor", "Setor">>,
     <<"receita_anual", "Receita Anual">>, <<"numero_funcionarios", "Nº de Funcionários">>,
     <<"pais", "País">>, <<"ano_fundacao", "Ano de Fundação">>}

\* C17: the file exportar_dados_csv writes has one row per record and the
\* columns for company name, sector, annual revenue, employee count, country
\* and founding year whenever the data has those fields; a field the data
\* does not have is left out, and its absence raises nothing.
C17_Exporta ==
    /\ (pc = "relatorio_erro" /\ exc.linha \in 112..163) => exc.tipo # "KeyError"
    /\ pc = "exportado" =>
          /\ Len(arquivo.rows) = Len(df.rows)
          /\ \A campo \in CamposExportados :
                HasCol(arquivo, campo[2]) <=> HasCol(df, campo[1])

\* C18: carregar_dados tries its sources in a fixed order: MongoDB first;
\* when MongoDB yields no documents or does not succeed, the Excel file if
\* it exists; the CSV file only if the Excel file is absent; and no source
\* is read after one that supplied data.
C18_OrdemDasFontes ==
    pc # "inicio" =>
        /\ Head(lidas) = "mongo"
        /\ lidas =
              IF fontes.mongo = "docs" THEN <<"mongo">>
              ELSE IF fontes.excel # "ausente" THEN <<"mongo", "excel">>
              ELSE IF fontes.csv # "ausente" THEN <<"mongo", "csv">>
              ELSE <<"mongo">>
        /\ (pc = "carregado" /\ fontes.mongo # "docs" /\ fontes.excel = "ok") => df = dados

\* the load fails: MongoDB fails, or it has no documents and the file that
\* is tried is unreadable or there is no file
CargaFalha ==
    \/ fontes.mongo = "falha"
    \/ /\ fontes.mongo = "vazio"
       /\ \/ fontes.excel = "ilegivel"
          \/ fontes.excel = "ausente" /\ fontes.csv # "ok"

C20_InicioCompleta ==
    /\ Carregada = EmptyDF => pc # "erro"
    /\ pc = "erro" => exc.tipo # "KeyError"

\* C21: main() inserts the generated companies only when buscar_todos
\* returned no documents, and otherwise analyses the existing documents, so
\* after any number of sequential runs the collection contains the
\* documents of exactly one generated batch; stated for the runs that
\* return a report.
C21_ExatamenteUmLote ==
    (pc = "main_fim" /\ ret.v # None) =>
        \E e \in 1..MaxExecucoes : colecao = Lote(e)

\* C22: main() never propagates an exception: when every step succeeds it
\* returns the report dictionary of gerar_relatorio, and when a step raises
\* it returns None; until then nothing is returned.
C22_MainNuncaPropaga ==
    /\ pc \in {"main_inicio", "gerado", "conectado", "dados", "analisado",
               "agregado", "main_fim"}
    /\ pc # "main_fim" => (exc = SemErro /\ ret = NoCall)
    /\ pc = "main_fim" =>
          \/ exc = SemErro /\ ret = Return(Relatorio(dados_empresas))
          \/ exc # SemErro /\ ret = Return(None)

\* gerar_relatorio raised and main returned None
C22_Witness ==
    /\ pc = "main_fim"
    /\ exc.linha = 61
    /\ ret = Return(None)
    /\ colecao = Lote(1)

\* C28: every MongoDB connection opened by main() or by carregar_dados() is
\* closed before that function returns, on every path, the paths where a
\* later step raises and the exception is caught included.
C28_ConexaoFechada ==
    pc \in {"main_fim", "carregado"} => conexao # "aberta"

RotulosDistintos(f) == Cardinality(Labels(f)) = Len(f.cols)

\* C29: the column labels of the table returned by normalizar_colunas are
\* pairwise distinct whenever the labels of its input are, also when the
\* input holds two synonyms of the same canonical field.
C29_RotulosDistintos ==
    (pc = "normalizado" /\ RotulosDistintos(Carregada)) => RotulosDistintos(Quadro)

\* the field a column of the exported table was taken from
CampoDeOrigem(c) == IF c = "receita_anual_formatada" THEN "receita_anual" ELSE c

\* C26: the labels exportar_dados_csv writes round-trip through
\* normalizar_colunas: each label of the exported file is a recognized
\* synonym and is renamed back to the name of the field it was exported from.
C26_RotulosIdaEVolta ==
    pc = "exportado" =>
        LET exportadas == SelectSeq(colunas_ordenadas, LAMBDA c : HasCol(df, c))
        IN  /\ Labels(arquivo) \subseteq DOMAIN mapeamento
            /\ Renomear(arquivo).f.cols =
                   [i \in 1..Len(exportadas) |-> CampoDeOrigem(exportadas[i])]

\* C27: the revenue values exportar_dados_csv writes round-trip through
\* converter_para_float: for a non-negative amount with at most two decimal
\* places the string written is "R$ " and the amount with '.' thousands
\* separators and a decimal comma, and reading it back gives the amount.
C27_ReceitaIdaEVolta ==
    (valor \in Quantias /\ pc # "quantia") =>
        /\ pc \in {"escrita", "lida"}
        /\ \E i \in ParteInteira \cup InteirosDeQuantia, c \in Centavos :
              /\ ToFloat(valor) = Frac(100 * i + c, 100)
              /\ primeira = Return(PyStr(receita_anual_formatada(i, c)))
        /\ pc = "lida" => ret = Return(ToFloat(valor))

\* 1234.56 was written as "R$ 1.234,56" and read back as 1234.56
C27_Witness ==
    /\ pc = "lida"
    /\ valor = Frac(123456, 100)
    /\ primeira = Return(ReaisFormatados)
    /\ ret = Return(valor)
\* the rows of f as a set
Linhas_(f) == {f.rows[r] : r \in 1..Len(f.rows)}

\* C23: after the initial render the outputs of update_graficos change only
\* with a click on 'Aplicar Filtros': a change of a filter control, or a
\* click on 'Limpar Filtros' (which gives the five filter controls their
\* initial values), leaves the outputs on display as they are; the Apply
\* click sets them to what update_graficos gives for the control values
\* current at the click.
C23_SoAplicarAtualiza ==
    [][pc = "painel" =>
          /\ saidas' # saidas => n_clicks'.aplicar = n_clicks.aplicar + 1
          /\ n_clicks'.aplicar # n_clicks.aplicar =>
                /\ controles' = controles
                /\ update_graficos(df, controles) = [ok |-> TRUE, s |-> saidas']
          /\ n_clicks'.limpar # n_clicks.limpar =>
                /\ saidas' = saidas
                /\ controles' =
                      [ControlesIniciais(df, limites) EXCEPT !.top_n = controles.top_n]]_vars

\* after an Apply with a changed control, 'Limpar Filtros' was clicked: the
\* controls are back at their initial values and the outputs on display are
\* still those of the Apply
C23_Witness ==
    /\ pc = "painel"
    /\ n_clicks = [aplicar |-> 1, limpar |-> 1]
    /\ controles = ControlesIniciais(df, limites)
    /\ update_graficos(df, controles) # [ok |-> TRUE, s |-> saidas]

\* the row passes every filter of the controls c
Satisfaz(row, c) ==
    LET receita == Cel(df, row, "receita_anual")
        funcionarios == Cel(df, row, "numero_funcionarios")
        ano == Cel(df, row, "ano_fundacao")
    IN  /\ c.setores # <<>> =>
              Cel(df, row, "setor") \in {c.setores[i] : i \in 1..Len(c.setores)}
        /\ IsFinite(receita)
        /\ Num(receita) >= c.receita[1] * 1000000 * Den(receita)
        /\ Num(receita) <= c.receita[2] * 1000000 * Den(receita)
        /\ IsFinite(funcionarios)
        /\ Num(funcionarios) >= c.funcionarios[1] * Den(funcionarios)
        /\ Num(funcionarios) <= c.funcionarios[2] * Den(funcionarios)
        /\ IsFinite(ano)
        /\ Num(ano) >= c.ano[1] * Den(ano)
        /\ Num(ano) <= c.ano[2] * Den(ano)
        /\ c.porte # <<>> =>
              Cel(df, row, "porte") \in {c.porte[i] : i \in 1..Len(c.porte)}

\* s holds the selection and the Top-N rows of the controls c
SelecaoDe(s, c) ==
    LET topo == {s.top[i] : i \in 1..Len(s.top)}
        selecionadas == {s.selecao[i] : i \in 1..Len(s.selecao)}
    IN  /\ s.selecao = SelectSeq(df.rows, LAMBDA row : Satisfaz(row, c))
        /\ selecionadas \subseteq Linhas_(df)
        /\ Len(s.top) <= c.top_n
        /\ Len(s.top) = (IF Len(s.selecao) < c.top_n THEN Len(s.selecao) ELSE c.top_n)
        /\ Cardinality(topo) = Len(s.top)
        /\ topo \subseteq selecionadas
        /\ \A fora \in selecionadas \ topo, dentro \in topo :
              MenorOuIgual(Cel(df, fora, "receita_anual"), Cel(df, dentro, "receita_anual"))

\* C24: update_graficos selects exactly the rows of the loaded table that
\* satisfy all filters (sector among the selected ones or no selection,
\* revenue within [lo*1e6, hi*1e6], employee count and founding year within
\* their ranges, all inclusive, tier among the selected ones or no
\* selection), and the Top-N chart shows at most top_n of the selected rows,
\* those with the highest revenue: so it is at the initial render and after
\* every Apply click.
C24_SelecaoExata ==
    [][(pc' = "painel" /\ (pc = "layout" \/ n_clicks'.aplicar # n_clicks.aplicar)) =>
          SelecaoDe(saidas', controles)]_vars

\* six rows are selected, one row of the table is not, and the Top-N chart
\* shows the five with the highest revenue
C24_Witness ==
    /\ pc = "painel"
    /\ n_clicks.aplicar = 1
    /\ controles.top_n = 5
    /\ Len(saidas.selecao) = 6
    /\ Len(df.rows) = 7
    /\ Len(saidas.top) = 5
    /\ SelecaoDe(saidas, controles)

\* revenue, employee count, founding year and tier of the row are present
Completa(row) ==
    \A c \in {"receita_anual", "numero_funcionarios", "ano_fundacao", "porte"} :
        ~IsMissing(Cel(df, row, c))

\* C25: with the filter controls at their initial values (as right after
\* limpar_filtros) the outputs of update_graficos select every row whose
\* revenue, employee count, founding year and tier are present: the default
\* slider bounds exclude no company.
C25_PadraoNaoExclui ==
    (/\ pc = "painel"
     /\ controles = limpar_filtros(df, limites, controles)
     /\ update_graficos(df, controles) = [ok |-> TRUE, s |-> saidas]) =>
        \A row \in Linhas_(df) :
            Completa(row) => row \in {saidas.selecao[i] : i \in 1..Len(saidas.selecao)}
====
